---- MODULE Spec2Model ----
(***************************************************************************)
(* Two-axis satellite tracker (RP2350).  Core 0 runs the command surfaces, *)
(* the motor control tick and homing; core 1 runs updateTracking (TLE      *)
(* handoff consumer and position predictor); three ISRs (emergency stop,   *)
(* elevation index, azimuth index) preempt core 0.                         *)
(*                                                                         *)
(* Angles are integers in hundredths of a degree; the float arithmetic of  *)
(* the source is modelled by exact arithmetic on that grid.  A C string is *)
(* a record [id, len, c0]: which text, how many characters, first one.     *)
(*                                                                         *)
(* The sketch's calls of updateMotorControl (loop) and updateTracking      *)
(* (loop1) are commented out in the checked-in sketch; the model runs both *)
(* as the periodic ticks they are written to be.                           *)
(***************************************************************************)
EXTENDS Integers, Sequences, FiniteSets, TLC

\* ------------------------------------------------------------------ bounds
MaxTicks == 2
MaxSubmissions == 2
MaxDepth == 3
MaxManual == 2

\* ------------------------------------------------------- program constants
MOTOR_MIN_PWM == 0
MOTOR_BRAKE_MODE == TRUE
MOTOR_USE_ENABLE_PINS == TRUE
PWM_MAX == 255
HOMING_SPEED == 0 - 80
GEAR_RATIO == 75
ENCODER_PPR == 1
SIZEOF_satelliteName == 25
SIZEOF_tleLine == 70
TLE_LINE_LEN == 69

Deg(d) == d * 100
DEGREES_PER_PULSE == Deg(360) \div (GEAR_RATIO * ENCODER_PPR * 4)
MAX_ELEVATION == Deg(90)
MIN_ELEVATION == Deg(0)
ELEVATION_MARGIN == Deg(5)
POSITION_TOLERANCE == Deg(3) \div 10
MAX_ERROR_INTEGRAL == Deg(50) * 100

Axes == {"E", "A"}

\* ------------------------------------------------------------ C helpers
\* A float that is not a number: every comparison with it is false and every
\* sum with it is NaN.  It stands outside the grid of angles.
NaN == 0 - 1000000
isnan(x) == x = NaN
FLess(a, b) == ~isnan(a) /\ ~isnan(b) /\ a < b
FAdd(a, b) == IF isnan(a) \/ isnan(b) THEN NaN ELSE a + b
FSub(a, b) == IF isnan(a) \/ isnan(b) THEN NaN ELSE a - b
FGeq(a, b) == ~isnan(a) /\ ~isnan(b) /\ a >= b
Abs(x) == IF x < 0 THEN 0 - x ELSE x
\* #define constrain(amt,low,high) ((amt)<(low)?(low):((amt)>(high)?(high):(amt)))
constrain(x, lo, hi) == IF FLess(x, lo) THEN lo ELSE IF FLess(hi, x) THEN hi ELSE x
\* C integer division and float-to-int casts truncate toward zero
TruncDiv(a, b) == IF a >= 0 THEN a \div b ELSE 0 - ((0 - a) \div b)

\* strings
EmptyStr == [id |-> "", len |-> 0, c0 |-> ""]
Str(i, n, c) == [id |-> i, len |-> n, c0 |-> c]
\* strncpy(dst, src, n) into a zeroed buffer: the first n characters of src
strncpy(src, n) == IF src.len <= n THEN src ELSE [src EXCEPT !.len = n]

VARIABLES
  emergencyStop,    \* volatile bool emergencyStop
  pwm,              \* analogWrite state of the four PWM pins, per axis [fwd, rev]
  enable,           \* enable pin per axis
  encCount,         \* encoder_states[sm].count per axis: what readPIOEncoder returns
  last_state,       \* encoder_states[sm].last_state per axis
  pins,             \* the levels of an axis's two encoder lines (bit 0: A, bit 1: B)
  motorPos,         \* MotorPosition
  targetPos,        \* TargetPosition
  trackerState,     \* TrackerState
  errorIntegralE, errorIntegralA, lastErrorE, lastErrorA,   \* PID state
  satelliteName, tleLine1, tleLine2, tleUpdatePending,      \* handoff buffer + flag
  sat,              \* Sgp4 sat: what site()/init() last stored
  satInitialized,
  lastAz, lastEl, lastPredictionTime,
  pc0,              \* core 0: position in the running operation ("idle" = in loop())
  sms,              \* position inside setMotorSpeed
  speed,            \* setMotorSpeed's local speed
  loc0,             \* locals of the running core 0 operation
  pc1,              \* core 1: position in updateTracking ("idle" = in loop1())
  loc1,             \* locals of updateTracking
  nTicks,           \* control ticks started (bounded by MaxTicks)
  nManual,          \* touch azimuth presses and joystick updates handled (bounded by MaxManual)
  nSet, nInit, nDecline   \* history: flag settings, sat.init calls, declined handoffs

bufVars == <<satelliteName, tleLine1, tleLine2>>
vars == <<emergencyStop, pwm, enable, encCount, last_state, pins, motorPos, targetPos, trackerState,
          errorIntegralE, errorIntegralA, lastErrorE, lastErrorA,
          satelliteName, tleLine1, tleLine2, tleUpdatePending,
          sat, satInitialized, lastAz, lastEl, lastPredictionTime,
          pc0, sms, speed, loc0, pc1, loc1, nTicks, nManual, nSet, nInit, nDecline>>

\* the pin pair setMotorSpeed(.., 0) and the ISR write
SafeOutput == IF MOTOR_BRAKE_MODE THEN [fwd |-> PWM_MAX, rev |-> PWM_MAX]
                                  ELSE [fwd |-> 0, rev |-> 0]
\* latched: what the tick read from emergencyStop at its top
NoLocals0 == [latched |-> FALSE, targetEl |-> 0, targetAz |-> 0, errorE |-> 0, errorA |-> 0,
              controlE |-> 0, controlA |-> 0, nconv |-> 0, az |-> 0, el |-> 0, argLen |-> 0, depth |-> 0,
              tag |-> "", azSpeed |-> 0, elSpeed |-> 0,
              name |-> EmptyStr, line1 |-> EmptyStr, line2 |-> EmptyStr]
\* sawPending: what the tick read from tleUpdatePending at its top;
\* done: the writes of the handoff the tick has made so far, in order
NoLocals1 == [sawPending |-> FALSE, done |-> <<>>,
              azNow |-> 0, elNow |-> 0, now |-> 0, azVelocity |-> 0, elVelocity |-> 0,
              predictedAz |-> 0, predictedEl |-> 0]
NoSat == [site |-> 0, name |-> EmptyStr, line1 |-> EmptyStr, line2 |-> EmptyStr]

pinVars == <<pwm, enable>>
encVars == <<encCount, last_state, pins>>
bndVars == <<nTicks, nManual>>
pidVars == <<errorIntegralE, errorIntegralA, lastErrorE, lastErrorA>>
core1Vars == <<sat, satInitialized, lastAz, lastEl, lastPredictionTime, pc1, loc1>>
histVars == <<nSet, nInit, nDecline>>
sharedVars == <<targetPos, trackerState, tleUpdatePending>>

\* --------------------------------------------------------------- Init
\* initSharedData, initMotorControl (stopAllMotors, emergencyStop = false), initTracking
\* loadConfiguration: a stored element set (config.tleValid) is copied into the
\* handoff buffer with strncpy and handed to the tracking core like a submission
NoStoredTle == [tleValid |-> FALSE, name |-> EmptyStr, line1 |-> EmptyStr, line2 |-> EmptyStr]
\* integrals: the values errorIntegralE / errorIntegralA have accumulated
SetupPid(targets, counts, configs, integrals) ==
  /\ emergencyStop = FALSE
  /\ pwm = [a \in Axes |-> SafeOutput]
  /\ enable = [a \in Axes |-> FALSE]
  /\ encCount \in counts
  /\ last_state = [a \in Axes |-> 0] /\ pins = [a \in Axes |-> 0]
  /\ motorPos = [elevation |-> 0, azimuth |-> 0,
                 elevationIndexFound |-> FALSE, azimuthIndexFound |-> FALSE]
  /\ targetPos \in targets
  /\ errorIntegralE \in integrals /\ errorIntegralA \in integrals
  /\ lastErrorE = 0 /\ lastErrorA = 0
  /\ \E config \in configs :
       /\ trackerState = [site |-> 0, gpsYear |-> 0, gpsMonth |-> 0, gpsDay |-> 0,
                          gpsValid |-> FALSE, tleValid |-> config.tleValid, tracking |-> FALSE]
       /\ satelliteName = strncpy(config.name, SIZEOF_satelliteName - 1)
       /\ tleLine1 = strncpy(config.line1, SIZEOF_tleLine - 1)
       /\ tleLine2 = strncpy(config.line2, SIZEOF_tleLine - 1)
       /\ tleUpdatePending = config.tleValid
       /\ nSet = IF config.tleValid THEN 1 ELSE 0
  /\ sat = NoSat /\ satInitialized = FALSE
  /\ lastAz = 0 /\ lastEl = 0 /\ lastPredictionTime = 0
  /\ pc0 = "idle" /\ sms = "entry" /\ speed = 0 /\ loc0 = NoLocals0
  /\ pc1 = "idle" /\ loc1 = NoLocals1
  /\ nTicks = 0 /\ nManual = 0 /\ nInit = 0 /\ nDecline = 0

\* the state setup() leaves: initMotorControl zeroes the PID state
Setup(targets, counts, configs) == SetupPid(targets, counts, configs, {0})
Boot(targets, counts) == Setup(targets, counts, {NoStoredTle})

Init == Boot({[azimuth |-> 0, elevation |-> 0, valid |-> FALSE]}, {[a \in Axes |-> 0]})

\* ------------------------------------------------------- setMotorSpeed
\* if (emergencyStop) speed = 0;
EStopOverride(spd) == IF emergencyStop THEN 0 ELSE spd
\* if (abs(speed) > 0 && abs(speed) < MOTOR_MIN_PWM) speed = +-MOTOR_MIN_PWM
MinPwm(spd) ==
  IF Abs(spd) > 0 /\ Abs(spd) < MOTOR_MIN_PWM
  THEN (IF spd > 0 THEN MOTOR_MIN_PWM ELSE 0 - MOTOR_MIN_PWM) ELSE spd
FwdDuty(spd) == IF spd > 0 THEN spd ELSE IF spd < 0 THEN 0 ELSE SafeOutput.fwd
RevDuty(spd) == IF spd > 0 THEN 0 ELSE IF spd < 0 THEN 0 - spd ELSE SafeOutput.rev

\* setMotorSpeed called at position `site` of the running operation, which
\* continues at `next`: the latch test and the two analogWrite calls are three
\* steps, and an ISR may run between any two of them.
setMotorSpeed(site, ax, spd, next) ==
  /\ pc0 = site
  /\ \/ /\ sms = "entry"
        /\ speed' = MinPwm(constrain(EStopOverride(spd), 0 - PWM_MAX, PWM_MAX))
        /\ enable' = IF MOTOR_USE_ENABLE_PINS THEN [enable EXCEPT ![ax] = TRUE] ELSE enable
        /\ sms' = "fwd"
        /\ UNCHANGED <<pwm, pc0>>
     \/ /\ sms = "fwd"
        /\ pwm' = [pwm EXCEPT ![ax].fwd = FwdDuty(speed)]
        /\ sms' = "rev"
        /\ UNCHANGED <<speed, enable, pc0>>
     \/ /\ sms = "rev"
        /\ pwm' = [pwm EXCEPT ![ax].rev = RevDuty(speed)]
        /\ sms' = "entry" /\ speed' = 0
        /\ pc0' = next
        /\ UNCHANGED enable
  /\ UNCHANGED <<emergencyStop, encVars, motorPos, pidVars, bufVars, core1Vars,
                 histVars, sharedVars, loc0, bndVars>>

\* the tail of stopAllMotors: setMotorEnable(.., false) on both axes
DisableMotors(site, next) ==
  /\ pc0 = site
  /\ enable' = IF MOTOR_USE_ENABLE_PINS THEN [a \in Axes |-> FALSE] ELSE enable
  /\ pc0' = next
  /\ UNCHANGED <<emergencyStop, pwm, encVars, motorPos, pidVars, bufVars, core1Vars,
                 histVars, sharedVars, sms, speed, loc0, bndVars>>

\* --------------------------------------------------------------- ISRs
\* An ISR runs to completion between two steps of core 0.
emergencyStop_ISR ==
  /\ emergencyStop' = TRUE
  /\ pwm' = [a \in Axes |-> SafeOutput]
  /\ trackerState' = [trackerState EXCEPT !.tracking = FALSE]
  /\ UNCHANGED <<enable, encVars, motorPos, targetPos, pidVars, bufVars, tleUpdatePending,
                 core1Vars, histVars, pc0, sms, speed, loc0, bndVars>>

\* pio_sm_exec(.., pio_encode_set(pio_x, 0)) clears the state machine's X
\* register; readPIOEncoder returns the decoder's own encoder_states[sm].count,
\* which no statement of the ISR writes.
indexE_ISR ==
  /\ motorPos' = [motorPos EXCEPT !.elevationIndexFound = TRUE]
  /\ motorPos' # motorPos
  /\ UNCHANGED <<emergencyStop, pinVars, encVars, pidVars, bufVars, core1Vars, histVars, sharedVars,
                 pc0, sms, speed, loc0, bndVars>>

indexA_ISR ==
  /\ motorPos' = [motorPos EXCEPT !.azimuthIndexFound = TRUE]
  /\ motorPos' # motorPos
  /\ UNCHANGED <<emergencyStop, pinVars, encVars, pidVars, bufVars, core1Vars, histVars, sharedVars,
                 pc0, sms, speed, loc0, bndVars>>

resetEmergencyStop ==
  /\ pc0 = "idle"
  /\ emergencyStop' = FALSE
  /\ UNCHANGED <<pinVars, encVars, motorPos, pidVars, bufVars, core1Vars, histVars,
                 sharedVars, pc0, sms, speed, loc0, bndVars>>

\* ----------------------------------------------------- readPIOEncoder
\* a two-bit value as its bits; changed = current_state ^ last
Bit0(p) == p % 2
Bit1(p) == p \div 2
Xor2(p, q) == (IF Bit0(p) # Bit0(q) THEN 1 ELSE 0) + (IF Bit1(p) # Bit1(q) THEN 2 ELSE 0)

\* the delta quadrature_encoder_fetch_count adds for the sample `cur` after `last`
QuadDelta(last, cur) ==
  LET changed == Xor2(cur, last)
  IN  IF cur = last THEN 0
      ELSE IF changed = 1
      THEN (IF (last = 0 /\ cur = 1) \/ (last = 2 /\ cur = 3) THEN 1 ELSE 0 - 1)
      ELSE IF changed = 2
      THEN (IF (last = 1 /\ cur = 3) \/ (last = 0 /\ cur = 2) THEN 1 ELSE 0 - 1)
      ELSE (IF (last = 0 /\ cur = 3) \/ (last = 1 /\ cur = 2) THEN 2 ELSE 0 - 2)

\* readPIOEncoder(sm): the pins are sampled, the count moves by the delta and
\* the sample is kept as last_state
quadrature_encoder_fetch_count(a) ==
  [count |-> encCount[a] + QuadDelta(last_state[a], pins[a]), last_state |-> pins[a]]

\* the encoder disc turns by one quadrature step: forward 00 -> 01 -> 11 -> 10 -> 00,
\* reverse 00 -> 10 -> 11 -> 01 -> 00
GrayForward(p) == IF p = 0 THEN 1 ELSE IF p = 1 THEN 3 ELSE IF p = 3 THEN 2 ELSE 0
GrayReverse(p) == IF p = 0 THEN 2 ELSE IF p = 2 THEN 3 ELSE IF p = 3 THEN 1 ELSE 0
EncoderTurn ==
  /\ \E a \in Axes : \E p \in {GrayForward(pins[a]), GrayReverse(pins[a])} :
       pins' = [pins EXCEPT ![a] = p]
  /\ UNCHANGED <<emergencyStop, pinVars, encCount, last_state, motorPos, pidVars, bufVars,
                 core1Vars, histVars, sharedVars, pc0, sms, speed, loc0, bndVars>>

\* ------------------------------------------------- updateMotorControl
CONTROL_LOOP_HZ == 100
KP_x20 == 60
KI_x20 == 3
KD_x20 == 16

\* while (currentAzimuth < 0) += 360;  while (currentAzimuth >= 360) -= 360;
RECURSIVE NormalizeAzimuth(_)
NormalizeAzimuth(a) ==
  IF a < 0 THEN NormalizeAzimuth(a + Deg(360))
  ELSE IF a >= Deg(360) THEN NormalizeAzimuth(a - Deg(360)) ELSE a

\* variant: the raw difference, neither adjustment applied
WrapAzimuthError_NoWrap(e) == e

\* if (errorA > 180) errorA -= 360;  if (errorA < -180) errorA += 360;
WrapAzimuthError(e) ==
  LET e1 == IF FLess(Deg(180), e) THEN e - Deg(360) ELSE e
  IN  IF FLess(e1, 0 - Deg(180)) THEN e1 + Deg(360) ELSE e1

ElevationOvertravel_UpperOnly(el) == el > MAX_ELEVATION + ELEVATION_MARGIN
\* currentElevation < MIN_ELEVATION - 5 || currentElevation > MAX_ELEVATION + 5
ElevationOvertravel(el) ==
  el < MIN_ELEVATION - ELEVATION_MARGIN \/ el > MAX_ELEVATION + ELEVATION_MARGIN

\* pidControl(error, errorIntegral, lastError, CONTROL_LOOP_DT): the integral is kept in
\* units of error * dt (hundredths of a degree * 1/100 s); the returned output
\* is the value after the caller's (int) cast.  The error difference is
\* saturated at 20 degrees, beyond which the derivative term alone decides the
\* clamped output (|KP*e + KI*i| < 0.8 * 20 * 100 - 255 for |e| <= 360 degrees);
\* this keeps the products within 32-bit integers.
\* variant: the integral is not clamped
pidControl_NoAntiWindup(error, integral, last) ==
  LET i1  == integral + error
      d   == constrain(error - last, 0 - Deg(20), Deg(20))
      den == 20 * 100 * CONTROL_LOOP_HZ
      num == KP_x20 * CONTROL_LOOP_HZ * error + KI_x20 * i1
             + KD_x20 * CONTROL_LOOP_HZ * CONTROL_LOOP_HZ * d
  IN  [integral |-> i1, lastError |-> error,
       output |-> TruncDiv(constrain(num, 0 - PWM_MAX * den, PWM_MAX * den), den)]

pidControl(error, integral, last) ==
  LET i1  == constrain(integral + error, 0 - MAX_ERROR_INTEGRAL, MAX_ERROR_INTEGRAL)
      d   == constrain(error - last, 0 - Deg(20), Deg(20))
      den == 20 * 100 * CONTROL_LOOP_HZ
      num == KP_x20 * CONTROL_LOOP_HZ * error + KI_x20 * i1
             + KD_x20 * CONTROL_LOOP_HZ * CONTROL_LOOP_HZ * d
  IN  [integral |-> i1, lastError |-> error,
       output |-> TruncDiv(constrain(num, 0 - PWM_MAX * den, PWM_MAX * den), den)]

\* variant: inside the tolerance the drive is zero but the PID state is kept
AxisControl_NoReset(error, integral, last) ==
  IF FLess(POSITION_TOLERANCE, IF isnan(error) THEN NaN ELSE Abs(error))
  THEN pidControl(error, integral, last)
  ELSE [integral |-> integral, lastError |-> last, output |-> 0]

\* one axis of the control law: PID outside the tolerance, reset inside it
AxisControl(error, integral, last) ==
  IF FLess(POSITION_TOLERANCE, IF isnan(error) THEN NaN ELSE Abs(error))
  THEN pidControl(error, integral, last)
  ELSE [integral |-> 0, lastError |-> 0, output |-> 0]

\* variant: the latched tick returns without calling stopAllMotors()
UMC_Check_ReturnsOnly ==
  /\ pc0 = "idle"
  /\ loc0' = [loc0 EXCEPT !.latched = emergencyStop]
  /\ IF emergencyStop
     THEN pc0' = "umc_ret" /\ UNCHANGED nTicks
     ELSE nTicks < MaxTicks /\ nTicks' = nTicks + 1 /\ pc0' = "umc_readE"
  /\ UNCHANGED <<emergencyStop, pinVars, encVars, motorPos, pidVars, bufVars, core1Vars,
                 histVars, sharedVars, sms, speed, nManual>>

\* if (emergencyStop) { stopAllMotors(); return; }
UMC_Check ==
  /\ pc0 = "idle"
  /\ loc0' = [loc0 EXCEPT !.latched = emergencyStop]
  /\ IF emergencyStop
     THEN pc0' = "umc_estopE" /\ UNCHANGED nTicks
     ELSE nTicks < MaxTicks /\ nTicks' = nTicks + 1 /\ pc0' = "umc_readE"
  /\ UNCHANGED <<emergencyStop, pinVars, encVars, motorPos, pidVars, bufVars, core1Vars,
                 histVars, sharedVars, sms, speed, nManual>>

UMC_EStopE == setMotorSpeed("umc_estopE", "E", 0, "umc_estopA")
UMC_EStopA == setMotorSpeed("umc_estopA", "A", 0, "umc_estopEn")
UMC_EStopDisable == DisableMotors("umc_estopEn", "umc_ret")

\* motorPos.elevation = readPIOEncoder(smElevation);
UMC_ReadE ==
  /\ pc0 = "umc_readE"
  /\ LET f == quadrature_encoder_fetch_count("E")
     IN  /\ encCount' = [encCount EXCEPT !["E"] = f.count]
         /\ last_state' = [last_state EXCEPT !["E"] = f.last_state]
         /\ motorPos' = [motorPos EXCEPT !.elevation = f.count]
  /\ pc0' = "umc_readA"
  /\ UNCHANGED <<emergencyStop, pinVars, pins, pidVars, bufVars, core1Vars, histVars,
                 sharedVars, sms, speed, loc0, bndVars>>

\* motorPos.azimuth = readPIOEncoder(smAzimuth); then the overtravel test
UMC_ReadA ==
  /\ pc0 = "umc_readA"
  /\ LET f == quadrature_encoder_fetch_count("A")
     IN  /\ encCount' = [encCount EXCEPT !["A"] = f.count]
         /\ last_state' = [last_state EXCEPT !["A"] = f.last_state]
         /\ motorPos' = [motorPos EXCEPT !.azimuth = f.count]
  /\ pc0' = IF ElevationOvertravel(motorPos.elevation * DEGREES_PER_PULSE)
            THEN "umc_otE" ELSE "umc_tgtE"
  /\ UNCHANGED <<emergencyStop, pinVars, pins, pidVars, bufVars, core1Vars, histVars,
                 sharedVars, sms, speed, loc0, bndVars>>

UMC_OvertravelE == setMotorSpeed("umc_otE", "E", 0, "umc_otA")
UMC_OvertravelA == setMotorSpeed("umc_otA", "A", 0, "umc_otEn")
UMC_OvertravelDisable == DisableMotors("umc_otEn", "umc_otTrk")
UMC_OvertravelFault ==
  /\ pc0 = "umc_otTrk"
  /\ trackerState' = [trackerState EXCEPT !.tracking = FALSE]
  /\ pc0' = "umc_ret"
  /\ UNCHANGED <<emergencyStop, pinVars, encVars, motorPos, targetPos, pidVars, bufVars,
                 tleUpdatePending, core1Vars, histVars, sms, speed, loc0, bndVars>>

\* variant: the shared elevation is used as it is
UMC_TargetE_Unclamped ==
  /\ pc0 = "umc_tgtE"
  /\ loc0' = [loc0 EXCEPT !.targetEl = targetPos.elevation]
  /\ pc0' = "umc_tgtA"
  /\ UNCHANGED <<emergencyStop, pinVars, encVars, motorPos, pidVars, bufVars, core1Vars,
                 histVars, sharedVars, sms, speed, bndVars>>

\* float targetEl = constrain(targetPos.elevation, MIN_ELEVATION, MAX_ELEVATION);
UMC_TargetE ==
  /\ pc0 = "umc_tgtE"
  /\ loc0' = [loc0 EXCEPT !.targetEl = constrain(targetPos.elevation, MIN_ELEVATION, MAX_ELEVATION)]
  /\ pc0' = "umc_tgtA"
  /\ UNCHANGED <<emergencyStop, pinVars, encVars, motorPos, pidVars, bufVars, core1Vars,
                 histVars, sharedVars, sms, speed, bndVars>>

\* float targetAz = targetPos.azimuth; errors; the two PID calls
UMC_TargetA ==
  /\ pc0 = "umc_tgtA"
  /\ LET currentElevation == motorPos.elevation * DEGREES_PER_PULSE
         currentAzimuth   == NormalizeAzimuth(motorPos.azimuth * DEGREES_PER_PULSE)
         errorE == FSub(loc0.targetEl, currentElevation)
         errorA == WrapAzimuthError(FSub(targetPos.azimuth, currentAzimuth))
         cE == AxisControl(errorE, errorIntegralE, lastErrorE)
         cA == AxisControl(errorA, errorIntegralA, lastErrorA)
     IN  /\ errorIntegralE' = cE.integral /\ lastErrorE' = cE.lastError
         /\ errorIntegralA' = cA.integral /\ lastErrorA' = cA.lastError
         /\ loc0' = [loc0 EXCEPT !.targetAz = targetPos.azimuth,
                                 !.errorE = errorE, !.errorA = errorA,
                                 !.controlE = cE.output, !.controlA = cA.output]
  /\ pc0' = "umc_setE"
  /\ UNCHANGED <<emergencyStop, pinVars, encVars, motorPos, bufVars, core1Vars,
                 histVars, sharedVars, sms, speed, bndVars>>

UMC_SetE == setMotorSpeed("umc_setE", "E", loc0.controlE, "umc_setA")
UMC_SetA == setMotorSpeed("umc_setA", "A", loc0.controlA, "umc_ret")
UMC_Return ==
  /\ pc0 = "umc_ret"
  /\ pc0' = "idle" /\ loc0' = NoLocals0
  /\ UNCHANGED <<emergencyStop, pinVars, encVars, motorPos, pidVars, bufVars, core1Vars,
                 histVars, sharedVars, sms, speed, bndVars>>

updateMotorControl ==
  \/ UMC_Check \/ UMC_EStopE \/ UMC_EStopA \/ UMC_EStopDisable
  \/ UMC_ReadE \/ UMC_ReadA
  \/ UMC_OvertravelE \/ UMC_OvertravelA \/ UMC_OvertravelDisable \/ UMC_OvertravelFault
  \/ UMC_TargetE \/ UMC_TargetA \/ UMC_SetE \/ UMC_SetA \/ UMC_Return

\* ------------------------------------------------------------ homeAxes
\* beginHomeAxes / homeAxes: trackerState.tracking = false (both write it)
Home_Begin ==
  /\ pc0 = "idle"
  /\ trackerState' = [trackerState EXCEPT !.tracking = FALSE]
  /\ pc0' = "home_chk"
  /\ UNCHANGED <<emergencyStop, pinVars, encVars, motorPos, targetPos, pidVars, bufVars,
                 tleUpdatePending, core1Vars, histVars, sms, speed, loc0, bndVars>>

\* if (emergencyStop) { "Cannot home - emergency stop active"; return; }
HomeRefuses_Never == FALSE
HomeRefuses == emergencyStop
Home_Check ==
  /\ pc0 = "home_chk"
  /\ IF HomeRefuses
     THEN pc0' = "home_refused"
     ELSE pc0' = "home_clrE"
  /\ UNCHANGED <<emergencyStop, pinVars, encVars, motorPos, pidVars, bufVars, core1Vars,
                 histVars, sharedVars, sms, speed, loc0, bndVars>>

Home_ClearE ==
  /\ pc0 = "home_clrE"
  /\ motorPos' = [motorPos EXCEPT !.elevationIndexFound = FALSE]
  /\ pc0' = "home_driveE"
  /\ UNCHANGED <<emergencyStop, pinVars, encVars, pidVars, bufVars, core1Vars, histVars,
                 sharedVars, sms, speed, loc0, bndVars>>

Home_DriveE == setMotorSpeed("home_driveE", "E", HOMING_SPEED, "home_waitE")

\* while (!found && (millis() - startTime) < 30000 && !emergencyStop) delay(10);
\* the 30 s timeout is a choice of the environment
\* variant: the wait has no timeout
WaitEnds_NoTimeout(found, timeout) == found \/ emergencyStop
WaitEnds(found, timeout) == found \/ timeout \/ emergencyStop
Home_WaitE ==
  /\ pc0 = "home_waitE"
  /\ \E timeout \in BOOLEAN :
       pc0' = IF WaitEnds(motorPos.elevationIndexFound, timeout)
              THEN "home_stopE" ELSE "home_waitE"
  /\ pc0' # pc0
  /\ UNCHANGED <<emergencyStop, pinVars, encVars, motorPos, pidVars, bufVars, core1Vars,
                 histVars, sharedVars, sms, speed, loc0, bndVars>>

Home_StopE == setMotorSpeed("home_stopE", "E", 0, "home_resE")

\* if (emergencyStop) aborted; else if (found) homed; else timeout
Home_ResultE ==
  /\ pc0 = "home_resE"
  /\ IF emergencyStop
     THEN pc0' = "home_aborted"
     ELSE IF motorPos.elevationIndexFound
     THEN pc0' = "home_clrA"
     ELSE pc0' = "home_timeout"
  /\ UNCHANGED <<emergencyStop, pinVars, encVars, motorPos, pidVars, bufVars, core1Vars,
                 histVars, sharedVars, sms, speed, loc0, bndVars>>

Home_ClearA ==
  /\ pc0 = "home_clrA"
  /\ motorPos' = [motorPos EXCEPT !.azimuthIndexFound = FALSE]
  /\ pc0' = "home_driveA"
  /\ UNCHANGED <<emergencyStop, pinVars, encVars, pidVars, bufVars, core1Vars, histVars,
                 sharedVars, sms, speed, loc0, bndVars>>

Home_DriveA == setMotorSpeed("home_driveA", "A", HOMING_SPEED, "home_waitA")

Home_WaitA ==
  /\ pc0 = "home_waitA"
  /\ \E timeout \in BOOLEAN :
       pc0' = IF WaitEnds(motorPos.azimuthIndexFound, timeout)
              THEN "home_stopA" ELSE "home_waitA"
  /\ pc0' # pc0
  /\ UNCHANGED <<emergencyStop, pinVars, encVars, motorPos, pidVars, bufVars, core1Vars,
                 histVars, sharedVars, sms, speed, loc0, bndVars>>

Home_StopA == setMotorSpeed("home_stopA", "A", 0, "home_resA")

Home_ResultA ==
  /\ pc0 = "home_resA"
  /\ pc0' = IF emergencyStop THEN "home_aborted"
            ELSE IF motorPos.azimuthIndexFound THEN "home_complete"
            ELSE "home_timeout"
  /\ UNCHANGED <<emergencyStop, pinVars, encVars, motorPos, pidVars, bufVars, core1Vars,
                 histVars, sharedVars, sms, speed, loc0, bndVars>>

\* the return of homeAxes; the position names the line it printed last:
\* "Cannot home", "Homing aborted", "ERROR: ... home timeout" or "Homing complete"
HomeReturns == {"home_refused", "home_aborted", "home_timeout", "home_complete"}
Home_Return ==
  /\ pc0 \in HomeReturns
  /\ pc0' = "idle"
  /\ UNCHANGED <<emergencyStop, pinVars, encVars, motorPos, pidVars, bufVars, core1Vars,
                 histVars, sharedVars, sms, speed, loc0, bndVars>>

homeAxes ==
  \/ Home_Begin \/ Home_Check \/ Home_ClearE \/ Home_DriveE \/ Home_WaitE \/ Home_StopE
  \/ Home_ResultE \/ Home_ClearA \/ Home_DriveA \/ Home_WaitA \/ Home_StopA \/ Home_ResultA
  \/ Home_Return

\* ------------------------------------------------- endTracking / handleStop
\* trackerState.tracking = false; stopAllMotors();
Stop_Begin ==
  /\ pc0 = "idle"
  /\ trackerState' = [trackerState EXCEPT !.tracking = FALSE]
  /\ pc0' = "stop_E"
  /\ UNCHANGED <<emergencyStop, pinVars, encVars, motorPos, targetPos, pidVars, bufVars,
                 tleUpdatePending, core1Vars, histVars, sms, speed, loc0, bndVars>>
Stop_E == setMotorSpeed("stop_E", "E", 0, "stop_A")
Stop_A == setMotorSpeed("stop_A", "A", 0, "stop_En")
Stop_Disable == DisableMotors("stop_En", "idle")
endTracking == Stop_Begin \/ Stop_E \/ Stop_A \/ Stop_Disable

\* ------------------------------- serial ESTOP: beginEmergencyStop
\* handleEStopCommand -> beginEmergencyStop() { stopAllMotors(); }
EStop_Begin_Latches ==
  /\ pc0 = "idle"
  /\ pc0' = "estop_E"
  /\ emergencyStop' = TRUE
  /\ UNCHANGED <<pinVars, encVars, motorPos, pidVars, bufVars, core1Vars,
                 histVars, sharedVars, sms, speed, loc0, bndVars>>
EStop_Begin ==
  /\ pc0 = "idle"
  /\ pc0' = "estop_E"
  /\ UNCHANGED <<emergencyStop, pinVars, encVars, motorPos, pidVars, bufVars, core1Vars,
                 histVars, sharedVars, sms, speed, loc0, bndVars>>
EStop_E == setMotorSpeed("estop_E", "E", 0, "estop_A")
EStop_A == setMotorSpeed("estop_A", "A", 0, "estop_En")
EStop_Disable == DisableMotors("estop_En", "idle")
beginEmergencyStop == EStop_Begin \/ EStop_E \/ EStop_A \/ EStop_Disable

\* ------------------------- serial RESET: beginResetEmergencyStop
\* handleResetCommand -> beginResetEmergencyStop() { ::beginResetEmergencyStop(); }
\* The wrapper names itself: each call makes the same call again and
\* resetEmergencyStop() of the motor module is never reached. loc0.depth counts
\* the frames on core 0's stack; with MaxDepth frames the stack is exhausted
\* and core 0 stops in the fault handler.
Reset_Call ==
  /\ pc0 = "idle"
  /\ pc0' = "rst_call"
  /\ loc0' = [loc0 EXCEPT !.depth = 1]
  /\ UNCHANGED <<emergencyStop, pinVars, encVars, motorPos, pidVars, bufVars, core1Vars,
                 histVars, sharedVars, sms, speed, bndVars>>
Reset_Recurse ==
  /\ pc0 = "rst_call"
  /\ loc0.depth < MaxDepth
  /\ loc0' = [loc0 EXCEPT !.depth = @ + 1]
  /\ UNCHANGED <<emergencyStop, pinVars, encVars, motorPos, pidVars, bufVars, core1Vars,
                 histVars, sharedVars, pc0, sms, speed, bndVars>>
Reset_StackOverflow ==
  /\ pc0 = "rst_call"
  /\ loc0.depth >= MaxDepth
  /\ pc0' = "rst_fault"
  /\ UNCHANGED <<emergencyStop, pinVars, encVars, motorPos, pidVars, bufVars, core1Vars,
                 histVars, sharedVars, sms, speed, loc0, bndVars>>
handleResetCommand == Reset_Call \/ Reset_Recurse \/ Reset_StackOverflow

\* ------------------------------------------- manual target (serial GOTO)
\* what the operator can type after GOTO: sscanf(args, "%f %f", &az, &el)
\* converts nconv numbers; %f also converts the text "nan"
GotoArgs(n, a, e) == [nconv |-> n, az |-> a, el |-> e]
GotoInputs ==
  {GotoArgs(2, Deg(180), Deg(45)), GotoArgs(2, 0, 0), GotoArgs(2, Deg(360) - 1, Deg(90)),
   GotoArgs(2, Deg(400), Deg(45)), GotoArgs(2, Deg(360), 0), GotoArgs(2, 0 - 1, 0),
   GotoArgs(2, Deg(10), Deg(90) + 1), GotoArgs(2, Deg(10), 0 - 1),
   GotoArgs(1, Deg(10), 0), GotoArgs(2, NaN, Deg(45)), GotoArgs(2, Deg(10), NaN)}

\* the three early returns of handleGotoCommand
GotoRejects(l) ==
  \/ l.nconv # 2
  \/ FLess(l.az, 0) \/ FGeq(l.az, Deg(360))
  \/ FLess(l.el, MIN_ELEVATION) \/ FLess(MAX_ELEVATION, l.el)

Goto_Begin(inputs) ==
  /\ pc0 = "idle"
  /\ \E in \in inputs :
       /\ loc0' = [loc0 EXCEPT !.nconv = in.nconv, !.az = in.az, !.el = in.el]
       /\ pc0' = IF GotoRejects(in) THEN "goto_err" ELSE "goto_trk"
  /\ UNCHANGED <<emergencyStop, pinVars, encVars, motorPos, pidVars, bufVars, core1Vars,
                 histVars, sharedVars, sms, speed, bndVars>>

Goto_Reject ==
  /\ pc0 = "goto_err"
  /\ pc0' = "idle" /\ loc0' = NoLocals0
  /\ UNCHANGED <<emergencyStop, pinVars, encVars, motorPos, pidVars, bufVars, core1Vars,
                 histVars, sharedVars, sms, speed, bndVars>>

\* setManualPosition(az, el): one step per store
ManualStore(site, next, ts, tp) ==
  /\ pc0 = site
  /\ trackerState' = ts /\ targetPos' = tp
  /\ pc0' = next
  /\ loc0' = IF next = "idle" THEN NoLocals0 ELSE loc0
  /\ UNCHANGED <<emergencyStop, pinVars, encVars, motorPos, pidVars, bufVars,
                 tleUpdatePending, core1Vars, histVars, sms, speed, bndVars>>
Manual_Tracking ==
  ManualStore("goto_trk", "goto_az", [trackerState EXCEPT !.tracking = FALSE], targetPos)
Manual_Azimuth ==
  ManualStore("goto_az", "goto_el", trackerState, [targetPos EXCEPT !.azimuth = loc0.az])
Manual_Elevation ==
  ManualStore("goto_el", "goto_valid", trackerState, [targetPos EXCEPT !.elevation = loc0.el])
Manual_Valid ==
  ManualStore("goto_valid", "idle", trackerState, [targetPos EXCEPT !.valid = TRUE])

handleGotoCommand(inputs) ==
  \/ Goto_Begin(inputs) \/ Goto_Reject
  \/ Manual_Tracking \/ Manual_Azimuth \/ Manual_Elevation \/ Manual_Valid

\* ----------------------------------- touch screen: TAG_EL_UP / TAG_EL_DOWN
\* targetPos.elevation += 5.0 (or -= 5.0);
Touch_ElevationStep ==
  /\ pc0 = "idle"
  /\ \E d \in {Deg(5), 0 - Deg(5)} :
       targetPos' = [targetPos EXCEPT !.elevation = FAdd(@, d)]
  /\ pc0' = "touch_clamp"
  /\ UNCHANGED <<emergencyStop, pinVars, encVars, motorPos, trackerState, pidVars, bufVars,
                 tleUpdatePending, core1Vars, histVars, sms, speed, loc0, bndVars>>
\* targetPos.elevation = constrain(targetPos.elevation, MIN_ELEVATION, MAX_ELEVATION);
Touch_ElevationClamp ==
  /\ pc0 = "touch_clamp"
  /\ targetPos' = [targetPos EXCEPT !.elevation = constrain(@, MIN_ELEVATION, MAX_ELEVATION)]
  /\ pc0' = "idle"
  /\ UNCHANGED <<emergencyStop, pinVars, encVars, motorPos, trackerState, pidVars, bufVars,
                 tleUpdatePending, core1Vars, histVars, sms, speed, loc0, bndVars>>
touchElevation == Touch_ElevationStep \/ Touch_ElevationClamp

\* ------------------------------------------------ touch screen: TAG_TRACK
\* if (trackerState.tleValid) trackerState.tracking = true; else "No TLE loaded!"
Touch_Track ==
  /\ pc0 = "idle"
  /\ trackerState' = IF trackerState.tleValid
                     THEN [trackerState EXCEPT !.tracking = TRUE] ELSE trackerState
  /\ trackerState' # trackerState
  /\ UNCHANGED <<emergencyStop, pinVars, encVars, motorPos, targetPos, pidVars, bufVars,
                 tleUpdatePending, core1Vars, histVars, pc0, sms, speed, loc0, bndVars>>

\* ----------------------------------- touch screen: TAG_AZ_LEFT / TAG_AZ_RIGHT
\* targetPos.azimuth -= 5.0 (or += 5.0);
Touch_AzimuthStep ==
  /\ pc0 = "idle"
  /\ nManual < MaxManual /\ nManual' = nManual + 1
  /\ \E tag \in {"TAG_AZ_LEFT", "TAG_AZ_RIGHT"} :
       /\ targetPos' = [targetPos EXCEPT
                          !.azimuth = FAdd(@, IF tag = "TAG_AZ_LEFT" THEN 0 - Deg(5) ELSE Deg(5))]
       /\ loc0' = [loc0 EXCEPT !.tag = tag]
  /\ pc0' = "taz_test"
  /\ UNCHANGED <<emergencyStop, pinVars, encVars, motorPos, trackerState, pidVars, bufVars,
                 tleUpdatePending, core1Vars, histVars, sms, speed, nTicks>>
\* if (targetPos.azimuth < 0) ... (or: if (targetPos.azimuth >= 360) ...): the test
\* reads the field again
Touch_AzimuthTest ==
  /\ pc0 = "taz_test"
  /\ IF (IF loc0.tag = "TAG_AZ_LEFT" THEN FLess(targetPos.azimuth, 0)
                                     ELSE FGeq(targetPos.azimuth, Deg(360)))
     THEN pc0' = "taz_wrap" /\ UNCHANGED loc0
     ELSE pc0' = "idle" /\ loc0' = NoLocals0
  /\ UNCHANGED <<emergencyStop, pinVars, encVars, motorPos, pidVars, bufVars, core1Vars,
                 histVars, sharedVars, sms, speed, bndVars>>
\* ... targetPos.azimuth += 360.0 (or -= 360.0): read again, then stored
Touch_AzimuthWrap ==
  /\ pc0 = "taz_wrap"
  /\ targetPos' = [targetPos EXCEPT
                     !.azimuth = FAdd(@, IF loc0.tag = "TAG_AZ_LEFT" THEN Deg(360) ELSE 0 - Deg(360))]
  /\ pc0' = "idle" /\ loc0' = NoLocals0
  /\ UNCHANGED <<emergencyStop, pinVars, encVars, motorPos, trackerState, pidVars, bufVars,
                 tleUpdatePending, core1Vars, histVars, sms, speed, bndVars>>
touchAzimuth == Touch_AzimuthStep \/ Touch_AzimuthTest \/ Touch_AzimuthWrap

\* ------------------------------------- joystick block of loop(), manual mode
\* the normalised deflections times MANUAL_SPEED (1 degree per update at full
\* deflection); abs(speed) > 0.01 is one hundredth on the grid
JoystickSpeeds == {<<Deg(1), 0>>, <<0 - Deg(1), 0>>, <<0, Deg(1)>>, <<Deg(1), 0 - Deg(1)>>}
Deflected(spd) == Abs(spd) > 1
JoyStep(site, ts, tp, next) ==
  /\ pc0 = site
  /\ trackerState' = ts /\ targetPos' = tp
  /\ pc0' = next
  /\ UNCHANGED <<emergencyStop, pinVars, encVars, motorPos, pidVars, bufVars,
                 tleUpdatePending, core1Vars, histVars, sms, speed, loc0, bndVars>>
\* if (isJoystickManualMode()) { azSpeed = ..; elSpeed = ..; if (abs(azSpeed) > 0.01)
Joy_Begin(speeds) ==
  /\ pc0 = "idle"
  /\ nManual < MaxManual /\ nManual' = nManual + 1
  /\ \E s \in speeds :
       /\ loc0' = [loc0 EXCEPT !.azSpeed = s[1], !.elSpeed = s[2]]
       /\ pc0' = IF Deflected(s[1]) THEN "joy_az" ELSE IF Deflected(s[2]) THEN "joy_el" ELSE "joy_ret"
  /\ UNCHANGED <<emergencyStop, pinVars, encVars, motorPos, pidVars, bufVars, core1Vars,
                 histVars, sharedVars, sms, speed, nTicks>>
\* targetPos.azimuth += azSpeed * MANUAL_SPEED;
Joy_AzimuthStep ==
  JoyStep("joy_az", trackerState, [targetPos EXCEPT !.azimuth = FAdd(@, loc0.azSpeed)], "joy_low")
\* while (targetPos.azimuth < 0) targetPos.azimuth += 360.0;
Joy_LowTest ==
  JoyStep("joy_low", trackerState, targetPos,
          IF FLess(targetPos.azimuth, 0) THEN "joy_lowAdd" ELSE "joy_high")
Joy_LowAdd ==
  JoyStep("joy_lowAdd", trackerState, [targetPos EXCEPT !.azimuth = FAdd(@, Deg(360))], "joy_low")
\* while (targetPos.azimuth >= 360) targetPos.azimuth -= 360.0;
Joy_HighTest ==
  JoyStep("joy_high", trackerState, targetPos,
          IF FGeq(targetPos.azimuth, Deg(360)) THEN "joy_highSub" ELSE "joy_azTrk")
Joy_HighSub ==
  JoyStep("joy_highSub", trackerState, [targetPos EXCEPT !.azimuth = FSub(@, Deg(360))], "joy_high")
\* trackerState.tracking = false; } if (abs(elSpeed) > 0.01) {
Joy_AzimuthTracking ==
  JoyStep("joy_azTrk", [trackerState EXCEPT !.tracking = FALSE], targetPos,
          IF Deflected(loc0.elSpeed) THEN "joy_el" ELSE "joy_ret")
\* targetPos.elevation += elSpeed * MANUAL_SPEED; constrain; tracking = false
Joy_ElevationStep ==
  JoyStep("joy_el", trackerState, [targetPos EXCEPT !.elevation = FAdd(@, loc0.elSpeed)], "joy_clamp")
Joy_ElevationClamp ==
  JoyStep("joy_clamp", trackerState,
          [targetPos EXCEPT !.elevation = constrain(@, MIN_ELEVATION, MAX_ELEVATION)], "joy_elTrk")
Joy_ElevationTracking ==
  JoyStep("joy_elTrk", [trackerState EXCEPT !.tracking = FALSE], targetPos, "joy_ret")
Joy_Return ==
  /\ pc0 = "joy_ret"
  /\ pc0' = "idle" /\ loc0' = NoLocals0
  /\ UNCHANGED <<emergencyStop, pinVars, encVars, motorPos, pidVars, bufVars, core1Vars,
                 histVars, sharedVars, sms, speed, bndVars>>
joystickManual(speeds) ==
  \/ Joy_Begin(speeds) \/ Joy_AzimuthStep \/ Joy_LowTest \/ Joy_LowAdd \/ Joy_HighTest
  \/ Joy_HighSub \/ Joy_AzimuthTracking \/ Joy_ElevationStep \/ Joy_ElevationClamp
  \/ Joy_ElevationTracking \/ Joy_Return

\* ------------------------------------------------------- environment
\* the mount has turned: the count of an axis is another value, as the reads
\* of the ticks that ran meanwhile left it
EncoderCounts == [E |-> {0 - 5, 0, 38}, A |-> {0, 150}]
EncoderMove(counts) ==
  /\ \E a \in Axes : \E c \in counts[a] :
       /\ c # encCount[a]
       /\ encCount' = [encCount EXCEPT ![a] = c]
  /\ UNCHANGED <<emergencyStop, pinVars, last_state, pins, motorPos, pidVars, bufVars, core1Vars, histVars,
                 sharedVars, pc0, sms, speed, loc0, bndVars>>

\* ------------------------------------------------ TLE handoff: producers
\* what the operator can submit: two well-formed element sets and malformed ones
SubA == [name |-> Str("ISS", 3, "I"), line1 |-> Str("A1", 69, "1"), line2 |-> Str("A2", 69, "2")]
SubB == [name |-> Str("NOAA", 4, "N"), line1 |-> Str("B1", 69, "1"), line2 |-> Str("B2", 69, "2")]
SubLongName == [SubA EXCEPT !.name = Str("LONG", 30, "L")]
SubNoName == [SubA EXCEPT !.name = EmptyStr]
SubShortLine == [SubA EXCEPT !.line1 = Str("A1", 68, "1")]
SubBadFirst == [SubA EXCEPT !.line2 = Str("A2", 69, "1")]
Submissions == {SubA, SubB, SubLongName, SubNoName, SubShortLine, SubBadFirst}
OneSubmission == {SubA, SubShortLine}

\* the checks of handleTLE before it touches the buffer
WebAccepts(sub) ==
  /\ ~(sub.name.len = 0 \/ sub.name.len >= SIZEOF_satelliteName)
  /\ ~(sub.line1.len # TLE_LINE_LEN \/ sub.line2.len # TLE_LINE_LEN)
  /\ ~(sub.line1.c0 # "1" \/ sub.line2.c0 # "2")
  /\ ~(sub.line1.len >= SIZEOF_tleLine \/ sub.line2.len >= SIZEOF_tleLine)

\* the checks of handleSetTLECommand before it calls setTLE
SerialAccepts(sub) ==
  /\ sub.name.len # 0
  /\ sub.line1.len = TLE_LINE_LEN
  /\ sub.line2.len = TLE_LINE_LEN
  /\ ~(sub.line1.c0 # "1" \/ sub.line2.c0 # "2")

\* handleTLE up to the first write: the arguments are kept, or the request is answered 400
Web_Begin(subs) ==
  /\ pc0 = "idle"
  /\ nSet < MaxSubmissions
  /\ \E sub \in subs :
       IF WebAccepts(sub)
       THEN /\ loc0' = [loc0 EXCEPT !.name = sub.name, !.line1 = sub.line1, !.line2 = sub.line2,
                                    !.argLen = sub.name.len]
            /\ pc0' = "web_clrName"
       ELSE /\ pc0' = "web_400" /\ UNCHANGED loc0
  /\ UNCHANGED <<emergencyStop, pinVars, encVars, motorPos, pidVars, bufVars, core1Vars,
                 histVars, sharedVars, sms, speed, bndVars>>

Web_Reject ==
  /\ pc0 = "web_400"
  /\ pc0' = "idle"
  /\ UNCHANGED <<emergencyStop, pinVars, encVars, motorPos, pidVars, bufVars, core1Vars,
                 histVars, sharedVars, sms, speed, loc0, bndVars>>

\* handleSetTLECommand: char name[25]; strncpy(name, args, 24); ... setTLE(name, line1, line2)
Serial_Begin(subs) ==
  /\ pc0 = "idle"
  /\ nSet < MaxSubmissions
  /\ \E sub \in subs :
       IF SerialAccepts(sub)
       THEN /\ loc0' = [loc0 EXCEPT !.name = strncpy(sub.name, SIZEOF_satelliteName - 1),
                                    !.line1 = sub.line1, !.line2 = sub.line2,
                                    !.argLen = sub.name.len]
            /\ pc0' = "ser_clrName"
       ELSE /\ pc0' = "ser_err" /\ UNCHANGED loc0
  /\ UNCHANGED <<emergencyStop, pinVars, encVars, motorPos, pidVars, bufVars, core1Vars,
                 histVars, sharedVars, sms, speed, bndVars>>

Serial_Reject ==
  /\ pc0 = "ser_err"
  /\ pc0' = "idle"
  /\ UNCHANGED <<emergencyStop, pinVars, encVars, motorPos, pidVars, bufVars, core1Vars,
                 histVars, sharedVars, sms, speed, loc0, bndVars>>

\* one write of the producer into the shared buffer: memset(field, 0, ..) or
\* strncpy(field, src, sizeof(field) - 1)
WriteBuffer(site, next, name, line1, line2) ==
  /\ pc0 = site
  /\ satelliteName' = name /\ tleLine1' = line1 /\ tleLine2' = line2
  /\ pc0' = next
  /\ UNCHANGED <<emergencyStop, pinVars, encVars, motorPos, pidVars, core1Vars,
                 histVars, sharedVars, sms, speed, loc0, bndVars>>

\* __dmb(); tleUpdatePending = true;
RaiseFlag(site, next) ==
  /\ pc0 = site
  /\ tleUpdatePending' = TRUE
  /\ nSet' = nSet + 1
  /\ pc0' = next
  /\ UNCHANGED <<emergencyStop, pinVars, encVars, motorPos, targetPos, trackerState, pidVars,
                 bufVars, core1Vars, nInit, nDecline, sms, speed, loc0, bndVars>>

Web_ClearName == WriteBuffer("web_clrName", "web_cpyName", EmptyStr, tleLine1, tleLine2)
Web_CopyName ==
  WriteBuffer("web_cpyName", "web_clrL1", strncpy(loc0.name, SIZEOF_satelliteName - 1), tleLine1, tleLine2)
Web_ClearLine1 == WriteBuffer("web_clrL1", "web_cpyL1", satelliteName, EmptyStr, tleLine2)
Web_CopyLine1 ==
  WriteBuffer("web_cpyL1", "web_clrL2", satelliteName, strncpy(loc0.line1, SIZEOF_tleLine - 1), tleLine2)
\* variant: the flag is raised where line 2 should be cleared, before line 2 is written
Web_ClearLine2_RaisesFlag == RaiseFlag("web_clrL2", "web_cpyL2")
Web_ClearLine2 == WriteBuffer("web_clrL2", "web_cpyL2", satelliteName, tleLine1, EmptyStr)
Web_CopyLine2 ==
  WriteBuffer("web_cpyL2", "web_flag", satelliteName, tleLine1, strncpy(loc0.line2, SIZEOF_tleLine - 1))
Web_SetFlag == RaiseFlag("web_flag", "tle_ret")

Serial_ClearName == WriteBuffer("ser_clrName", "ser_cpyName", EmptyStr, tleLine1, tleLine2)
Serial_CopyName ==
  WriteBuffer("ser_cpyName", "ser_clrL1", strncpy(loc0.name, SIZEOF_satelliteName - 1), tleLine1, tleLine2)
Serial_ClearLine1 == WriteBuffer("ser_clrL1", "ser_cpyL1", satelliteName, EmptyStr, tleLine2)
Serial_CopyLine1 ==
  WriteBuffer("ser_cpyL1", "ser_clrL2", satelliteName, strncpy(loc0.line1, SIZEOF_tleLine - 1), tleLine2)
Serial_ClearLine2 == WriteBuffer("ser_clrL2", "ser_cpyL2", satelliteName, tleLine1, EmptyStr)
Serial_CopyLine2 ==
  WriteBuffer("ser_cpyL2", "ser_flag", satelliteName, tleLine1, strncpy(loc0.line2, SIZEOF_tleLine - 1))
Serial_SetFlag == RaiseFlag("ser_flag", "ser_valid")
\* setTLE's last line: trackerState.tleValid = true;
Serial_SetTleValid ==
  /\ pc0 = "ser_valid"
  /\ trackerState' = [trackerState EXCEPT !.tleValid = TRUE]
  /\ pc0' = "tle_ret"
  /\ UNCHANGED <<emergencyStop, pinVars, encVars, motorPos, targetPos, pidVars, bufVars,
                 tleUpdatePending, core1Vars, histVars, sms, speed, loc0, bndVars>>

TLE_Return ==
  /\ pc0 = "tle_ret"
  /\ pc0' = "idle" /\ loc0' = NoLocals0
  /\ UNCHANGED <<emergencyStop, pinVars, encVars, motorPos, pidVars, bufVars, core1Vars,
                 histVars, sharedVars, sms, speed, bndVars>>

handleTLE(subs) ==
  \/ Web_Begin(subs) \/ Web_Reject \/ Web_ClearName \/ Web_CopyName \/ Web_ClearLine1
  \/ Web_CopyLine1 \/ Web_ClearLine2 \/ Web_CopyLine2 \/ Web_SetFlag \/ TLE_Return
setTLE(subs) ==
  \/ Serial_Begin(subs) \/ Serial_Reject \/ Serial_ClearName \/ Serial_CopyName \/ Serial_ClearLine1
  \/ Serial_CopyLine1 \/ Serial_ClearLine2 \/ Serial_CopyLine2 \/ Serial_SetFlag
  \/ Serial_SetTleValid

\* ------------------------------------------------------------ updateGPS
GoodFix == [site |-> 1, year |-> 2025, month |-> 6, day |-> 15]
GpsFixes == {GoodFix, [GoodFix EXCEPT !.year = 2019]}
\* a valid, fresh sentence: position, date and gpsValid = true
GPS_Fix(fixes) ==
  /\ pc0 = "idle"
  /\ \E f \in fixes :
       trackerState' = [trackerState EXCEPT !.site = f.site, !.gpsYear = f.year,
                          !.gpsMonth = f.month, !.gpsDay = f.day, !.gpsValid = TRUE]
  /\ trackerState' # trackerState
  /\ UNCHANGED <<emergencyStop, pinVars, encVars, motorPos, targetPos, pidVars, bufVars,
                 tleUpdatePending, core1Vars, histVars, pc0, sms, speed, loc0, bndVars>>

\* no fix for GPS_TIMEOUT_MS: gpsValid = false; ...
GPS_Timeout ==
  /\ pc0 = "idle"
  /\ trackerState.gpsValid
  /\ trackerState' = [trackerState EXCEPT !.gpsValid = FALSE]
  /\ pc0' = "gps_trk"
  /\ UNCHANGED <<emergencyStop, pinVars, encVars, motorPos, targetPos, pidVars, bufVars,
                 tleUpdatePending, core1Vars, histVars, sms, speed, loc0, bndVars>>

\* variant: the timeout leaves tracking as it is
GPS_StopTracking_Keeps ==
  /\ pc0 = "gps_trk"
  /\ pc0' = "idle"
  /\ UNCHANGED <<emergencyStop, pinVars, encVars, motorPos, pidVars, bufVars, core1Vars,
                 histVars, sharedVars, sms, speed, loc0, bndVars>>

\* ... if (trackerState.tracking) trackerState.tracking = false;
GPS_StopTracking ==
  /\ pc0 = "gps_trk"
  /\ trackerState' = IF trackerState.tracking
                     THEN [trackerState EXCEPT !.tracking = FALSE] ELSE trackerState
  /\ pc0' = "idle"
  /\ UNCHANGED <<emergencyStop, pinVars, encVars, motorPos, targetPos, pidVars, bufVars,
                 tleUpdatePending, core1Vars, histVars, sms, speed, loc0, bndVars>>

updateGPS(fixes) == GPS_Fix(fixes) \/ GPS_Timeout \/ GPS_StopTracking

\* --------------------------------------------- updateTracking (core 1)
core0Vars == <<emergencyStop, pinVars, encVars, motorPos, pidVars, bufVars,
               pc0, sms, speed, loc0, bndVars, nSet>>
predVars == <<lastAz, lastEl, lastPredictionTime>>

\* if (tleUpdatePending) { __dmb(); ...
UT_Check ==
  /\ pc1 = "idle"
  /\ loc1' = [loc1 EXCEPT !.sawPending = tleUpdatePending]
  /\ pc1' = IF tleUpdatePending THEN "ut_gps" ELSE "ut_pred"
  /\ UNCHANGED <<core0Vars, sharedVars, sat, satInitialized, predVars, nInit, nDecline>>

\* variant: the flag is cleared as soon as the GPS check passes, before the initialisation
UT_GpsCheck_ClearsFirst ==
  /\ pc1 = "ut_gps"
  /\ tleUpdatePending' = FALSE
  /\ IF ~trackerState.gpsValid
     THEN /\ nDecline' = nDecline + 1
          /\ loc1' = [loc1 EXCEPT !.done = Append(@, "clear")]
          /\ pc1' = "ut_ret"
     ELSE /\ pc1' = "ut_site"
          /\ loc1' = [loc1 EXCEPT !.done = Append(@, "clear")]
          /\ UNCHANGED nDecline
  /\ UNCHANGED <<core0Vars, targetPos, trackerState, sat, satInitialized, predVars, nInit>>

\* variant: without a GPS fix the tick returns and leaves the flag set
UT_GpsCheck_KeepsFlag ==
  /\ pc1 = "ut_gps"
  /\ IF ~trackerState.gpsValid
     THEN /\ nDecline' = nDecline + 1
          /\ pc1' = "ut_ret"
          /\ UNCHANGED <<tleUpdatePending, loc1>>
     ELSE /\ pc1' = "ut_site"
          /\ UNCHANGED <<tleUpdatePending, nDecline, loc1>>
  /\ UNCHANGED <<core0Vars, targetPos, trackerState, sat, satInitialized, predVars, nInit>>

\* variant: the GPS fix is not tested, the initialisation always runs
UT_GpsCheck_IgnoresGps ==
  /\ pc1 = "ut_gps"
  /\ pc1' = "ut_site"
  /\ UNCHANGED <<core0Vars, sharedVars, sat, satInitialized, predVars, loc1, nInit, nDecline>>

\* if (!trackerState.gpsValid) { tleUpdatePending = false; return; }
UT_GpsCheck ==
  /\ pc1 = "ut_gps"
  /\ IF ~trackerState.gpsValid
     THEN /\ tleUpdatePending' = FALSE
          /\ nDecline' = nDecline + 1
          /\ loc1' = [loc1 EXCEPT !.done = Append(@, "clear")]
          /\ pc1' = "ut_ret"
     ELSE /\ pc1' = "ut_site"
          /\ UNCHANGED <<tleUpdatePending, nDecline, loc1>>
  /\ UNCHANGED <<core0Vars, targetPos, trackerState, sat, satInitialized, predVars, nInit>>

\* sat.site(trackerState.latitude, trackerState.longitude, trackerState.altitude);
UT_Site ==
  /\ pc1 = "ut_site"
  /\ sat' = [sat EXCEPT !.site = trackerState.site]
  /\ loc1' = [loc1 EXCEPT !.done = Append(@, "site")]
  /\ pc1' = "ut_initName"
  /\ UNCHANGED <<core0Vars, sharedVars, satInitialized, predVars, nInit, nDecline>>

\* sat.init(satelliteName, tleLine1, tleLine2): the library reads the three
\* buffers one after the other while core 0 runs on
UT_InitName ==
  /\ pc1 = "ut_initName"
  /\ sat' = [sat EXCEPT !.name = satelliteName]
  /\ nInit' = nInit + 1
  /\ loc1' = [loc1 EXCEPT !.done = Append(@, "init")]
  /\ pc1' = "ut_initL1"
  /\ UNCHANGED <<core0Vars, sharedVars, satInitialized, predVars, nDecline>>

UT_InitLine1 ==
  /\ pc1 = "ut_initL1"
  /\ sat' = [sat EXCEPT !.line1 = tleLine1]
  /\ pc1' = "ut_initL2"
  /\ UNCHANGED <<core0Vars, sharedVars, satInitialized, predVars, loc1, nInit, nDecline>>

UT_InitLine2 ==
  /\ pc1 = "ut_initL2"
  /\ sat' = [sat EXCEPT !.line2 = tleLine2]
  /\ pc1' = "ut_setInit"
  /\ UNCHANGED <<core0Vars, sharedVars, satInitialized, predVars, loc1, nInit, nDecline>>

UT_SetInitialized ==
  /\ pc1 = "ut_setInit"
  /\ satInitialized' = TRUE
  /\ loc1' = [loc1 EXCEPT !.done = Append(@, "satInitialized")]
  /\ pc1' = "ut_setValid"
  /\ UNCHANGED <<core0Vars, sharedVars, sat, predVars, nInit, nDecline>>

UT_SetTleValid ==
  /\ pc1 = "ut_setValid"
  /\ trackerState' = [trackerState EXCEPT !.tleValid = TRUE]
  /\ loc1' = [loc1 EXCEPT !.done = Append(@, "tleValid")]
  /\ pc1' = "ut_setTrk"
  /\ UNCHANGED <<core0Vars, targetPos, tleUpdatePending, sat, satInitialized, predVars,
                 nInit, nDecline>>

UT_SetTracking ==
  /\ pc1 = "ut_setTrk"
  /\ trackerState' = [trackerState EXCEPT !.tracking = TRUE]
  /\ loc1' = [loc1 EXCEPT !.done = Append(@, "tracking")]
  /\ pc1' = "ut_clear"
  /\ UNCHANGED <<core0Vars, targetPos, tleUpdatePending, sat, satInitialized, predVars,
                 nInit, nDecline>>

\* variant: the success path goes on to the predictor without clearing the flag
UT_ClearFlag_Keeps ==
  /\ pc1 = "ut_clear"
  /\ pc1' = "ut_pred"
  /\ UNCHANGED <<core0Vars, sharedVars, sat, satInitialized, predVars, loc1, nInit, nDecline>>

\* __dmb(); tleUpdatePending = false;
UT_ClearFlag ==
  /\ pc1 = "ut_clear"
  /\ tleUpdatePending' = FALSE
  /\ loc1' = [loc1 EXCEPT !.done = Append(@, "clear")]
  /\ pc1' = "ut_pred"
  /\ UNCHANGED <<core0Vars, targetPos, trackerState, sat, satInitialized, predVars,
                 nInit, nDecline>>

\* -------- the predictor half of updateTracking
PREDICTION_TIME_SEC == 2
MAX_VELOCITY == Deg(2)
\* what sat.findsat can report (azimuth, elevation) and when millis() is read
SatPositions == {<<Deg(100) - 10, Deg(45)>>, <<Deg(100), Deg(45)>>, <<Deg(359), 0 - Deg(3)>>,
                 <<Deg(200), Deg(89)>>}
PredictionInstants == {3000, 3005, 4000}

\* year < 2020 || year > 2100 || month < 1 || month > 12 || day < 1 || day > 31
InvalidGpsDate_Never(ts) == FALSE
InvalidGpsDate(ts) ==
  \/ ts.gpsYear < 2020 \/ ts.gpsYear > 2100
  \/ ts.gpsMonth < 1 \/ ts.gpsMonth > 12
  \/ ts.gpsDay < 1 \/ ts.gpsDay > 31

\* variant: the raw finite difference, not constrained
AzVelocity_Unclamped(delta, dtMs) == TruncDiv(delta * 1000, dtMs)

\* (now - last) / dt, then +-360 on the quotient, then constrain to +-2 deg/s;
\* delta in hundredths of a degree, dtMs in ms, result in hundredths per second
AzVelocity(delta, dtMs) ==
  LET v  == TruncDiv(delta * 1000, dtMs)
      v1 == IF v > Deg(180) THEN v - Deg(360) ELSE v
      v2 == IF v1 < 0 - Deg(180) THEN v1 + Deg(360) ELSE v1
  IN  constrain(v2, 0 - MAX_VELOCITY, MAX_VELOCITY)
ElVelocity(delta, dtMs) ==
  constrain(TruncDiv(delta * 1000, dtMs), 0 - MAX_VELOCITY, MAX_VELOCITY)

\* if (tracking && satInitialized && gpsValid) { date check; findsat; velocity;
\* prediction } else if (tracking && !gpsValid) tracking = false;
PredictorRuns_IgnoresGps == trackerState.tracking /\ satInitialized
PredictorRuns == trackerState.tracking /\ satInitialized /\ trackerState.gpsValid
UT_Predict(positions, instants) ==
  /\ pc1 = "ut_pred"
  /\ IF PredictorRuns
     THEN IF InvalidGpsDate(trackerState)
          THEN pc1' = "ut_ret" /\ UNCHANGED <<loc1, trackerState>>
          ELSE /\ \E p \in positions :
                  \E now \in {t \in instants : t >= lastPredictionTime} :
                    LET dtMs == now - lastPredictionTime
                        moving == lastPredictionTime > 0 /\ dtMs > 10
                        azV == IF moving THEN AzVelocity(p[1] - lastAz, dtMs) ELSE 0
                        elV == IF moving THEN ElVelocity(p[2] - lastEl, dtMs) ELSE 0
                    IN  loc1' = [loc1 EXCEPT !.azNow = p[1], !.elNow = p[2], !.now = now,
                                   !.azVelocity = azV, !.elVelocity = elV,
                                   !.predictedAz = NormalizeAzimuth(p[1] + azV * PREDICTION_TIME_SEC),
                                   !.predictedEl = p[2] + elV * PREDICTION_TIME_SEC]
               /\ pc1' = "ut_wAz"
               /\ UNCHANGED trackerState
     ELSE IF trackerState.tracking /\ ~trackerState.gpsValid
          THEN /\ trackerState' = [trackerState EXCEPT !.tracking = FALSE]
               /\ pc1' = "ut_ret" /\ UNCHANGED loc1
          ELSE pc1' = "ut_ret" /\ UNCHANGED <<loc1, trackerState>>
  /\ UNCHANGED <<core0Vars, targetPos, tleUpdatePending, sat, satInitialized, predVars,
                 nInit, nDecline>>

\* variant: the instantaneous azimuth is written, without the lookahead
UT_WriteAz_NoLookahead ==
  /\ pc1 = "ut_wAz"
  /\ targetPos' = [targetPos EXCEPT !.azimuth = loc1.azNow]
  /\ pc1' = "ut_wEl"
  /\ UNCHANGED <<core0Vars, trackerState, tleUpdatePending, sat, satInitialized, predVars,
                 loc1, nInit, nDecline>>

UT_WriteAz ==
  /\ pc1 = "ut_wAz"
  /\ targetPos' = [targetPos EXCEPT !.azimuth = loc1.predictedAz]
  /\ pc1' = "ut_wEl"
  /\ UNCHANGED <<core0Vars, trackerState, tleUpdatePending, sat, satInitialized, predVars,
                 loc1, nInit, nDecline>>

UT_WriteEl ==
  /\ pc1 = "ut_wEl"
  /\ targetPos' = [targetPos EXCEPT !.elevation = loc1.predictedEl]
  /\ pc1' = "ut_wValid"
  /\ UNCHANGED <<core0Vars, trackerState, tleUpdatePending, sat, satInitialized, predVars,
                 loc1, nInit, nDecline>>

\* targetPos.valid = true; lastAz = azNow; lastEl = elNow; lastPredictionTime = now;
UT_WriteValid ==
  /\ pc1 = "ut_wValid"
  /\ targetPos' = [targetPos EXCEPT !.valid = TRUE]
  /\ lastAz' = loc1.azNow /\ lastEl' = loc1.elNow /\ lastPredictionTime' = loc1.now
  /\ pc1' = "ut_stow"
  /\ UNCHANGED <<core0Vars, trackerState, tleUpdatePending, sat, satInitialized,
                 loc1, nInit, nDecline>>

\* variant: the stow also ends tracking when the satellite sets
UT_Stow_StopsTracking ==
  /\ pc1 = "ut_stow"
  /\ targetPos' = IF loc1.elNow < 0 THEN [targetPos EXCEPT !.elevation = 0] ELSE targetPos
  /\ trackerState' = IF loc1.elNow < 0
                     THEN [trackerState EXCEPT !.tracking = FALSE] ELSE trackerState
  /\ pc1' = "ut_ret"
  /\ UNCHANGED <<core0Vars, tleUpdatePending, sat, satInitialized, predVars,
                 loc1, nInit, nDecline>>

\* if (elNow < 0) targetPos.elevation = 0.0;
UT_Stow ==
  /\ pc1 = "ut_stow"
  /\ targetPos' = IF loc1.elNow < 0 THEN [targetPos EXCEPT !.elevation = 0] ELSE targetPos
  /\ pc1' = "ut_ret"
  /\ UNCHANGED <<core0Vars, trackerState, tleUpdatePending, sat, satInitialized, predVars,
                 loc1, nInit, nDecline>>

\* the return of updateTracking to loop1()
UT_Return ==
  /\ pc1 = "ut_ret"
  /\ pc1' = "idle" /\ loc1' = NoLocals1
  /\ UNCHANGED <<core0Vars, sharedVars, sat, satInitialized, predVars, nInit, nDecline>>

updateTracking(positions, instants) ==
  \/ UT_Check \/ UT_GpsCheck \/ UT_Site \/ UT_InitName \/ UT_InitLine1 \/ UT_InitLine2
  \/ UT_SetInitialized \/ UT_SetTleValid \/ UT_SetTracking \/ UT_ClearFlag
  \/ UT_Predict(positions, instants) \/ UT_WriteAz \/ UT_WriteEl \/ UT_WriteValid \/ UT_Stow
  \/ UT_Return

\* ------------------------------------------------------ specifications
\* Spec interleaves everything.  The claims are checked under the parts of it
\* below: each keeps every operation that writes a variable its claims read,
\* and draws the inputs of the others from the smallest sets that exercise them.
OnePosition == {<<Deg(100), Deg(45)>>}
OneInstant == {3000}

Next ==
  \/ updateMotorControl \/ homeAxes \/ endTracking \/ resetEmergencyStop
  \/ beginEmergencyStop \/ handleResetCommand \/ handleGotoCommand(GotoInputs) \/ touchElevation
  \/ touchAzimuth \/ joystickManual(JoystickSpeeds) \/ Touch_Track
  \/ handleTLE(Submissions) \/ setTLE(Submissions) \/ updateGPS(GpsFixes)
  \/ updateTracking(SatPositions, PredictionInstants)
  \/ emergencyStop_ISR \/ indexE_ISR \/ indexA_ISR \/ EncoderMove(EncoderCounts)
Spec == Init /\ [][Next]_vars

\* the output stage: every caller of setMotorSpeed on core 0 and the ISRs
NextMotor ==
  \/ updateMotorControl \/ homeAxes \/ endTracking \/ resetEmergencyStop
  \/ emergencyStop_ISR \/ indexE_ISR \/ indexA_ISR \/ EncoderMove(EncoderCounts)
SpecMotor == Init /\ [][NextMotor]_vars

\* homing against the tracking core: every writer of trackerState.tracking
NextHoming ==
  \/ homeAxes \/ resetEmergencyStop \/ emergencyStop_ISR \/ indexE_ISR \/ indexA_ISR
  \/ handleTLE(OneSubmission) \/ updateGPS({GoodFix}) \/ updateTracking(OnePosition, OneInstant)
SpecHoming == Init /\ [][NextHoming]_vars

\* the handoff: both producers, the GPS collaborator and the consumer
NextHandoff ==
  \/ handleTLE(Submissions) \/ setTLE(Submissions) \/ updateGPS(GpsFixes)
  \/ updateTracking(OnePosition, OneInstant)
SpecHandoff == Init /\ [][NextHandoff]_vars

\* the handoff with the tracking core scheduled forever: loop1() never returns
SpecHandoffFair == SpecHandoff /\ WF_vars(updateTracking(OnePosition, OneInstant))

\* the predictor over a pass: positions a tenth of a degree apart, across the
\* horizon and near the zenith, at instants 5 ms and 1 s apart
NextPredictor ==
  \/ handleTLE(OneSubmission) \/ updateGPS({GoodFix})
  \/ updateTracking(SatPositions, PredictionInstants)
SpecPredictor == Init /\ [][NextPredictor]_vars

\* the latch against everything that runs while it is set: control ticks,
\* homing, the STOP, ESTOP and RESET commands, the TRACK button and a handoff
\* consumption
NextLatch ==
  \/ updateMotorControl \/ homeAxes \/ endTracking \/ beginEmergencyStop
  \/ handleResetCommand \/ resetEmergencyStop \/ Touch_Track
  \/ emergencyStop_ISR \/ indexE_ISR \/ indexA_ISR
  \/ updateGPS({GoodFix}) \/ updateTracking(OnePosition, OneInstant)
LatchCounts == {[E |-> e, A |-> 0] : e \in {0, 0 - 5}}
StoredTle == [tleValid |-> TRUE, name |-> SubA.name, line1 |-> SubA.line1, line2 |-> SubA.line2]
SpecLatch ==
  /\ Setup({[azimuth |-> 0, elevation |-> 0, valid |-> FALSE]}, LatchCounts, {StoredTle})
  /\ [][NextLatch]_vars

\* the control tick against predictor ticks that write two different targets
\* (all at one instant: the velocity is 0 and the target is the position itself)
TargetPairs == {<<Deg(100), Deg(45)>>, <<Deg(200), Deg(89)>>}
NextTarget ==
  \/ updateMotorControl \/ emergencyStop_ISR
  \/ updateGPS({GoodFix}) \/ updateTracking(TargetPairs, OneInstant)
SpecTarget ==
  /\ Setup({[azimuth |-> 0, elevation |-> 0, valid |-> FALSE]}, LatchCounts, {StoredTle})
  /\ [][NextTarget]_vars

\* the predictor across the 0/360 boundary: 359 -> 1 -> 359 degrees, ticks
\* 5 ms, 1 s and 2 s apart
CrossingPositions == {<<Deg(359), Deg(10)>>, <<Deg(1), Deg(10)>>}
CrossingInstants == {3000, 3005, 4000, 5000}
NextCrossing ==
  \/ updateGPS(GpsFixes) \/ updateTracking(CrossingPositions, CrossingInstants)
SpecCrossing ==
  /\ Setup({[azimuth |-> 0, elevation |-> 0, valid |-> FALSE]}, {[a \in Axes |-> 0]}, {StoredTle})
  /\ [][NextCrossing]_vars

\* the predictor under GPS dates inside and outside the accepted range
DateFixes ==
  GpsFixes \cup {[GoodFix EXCEPT !.year = 2101], [GoodFix EXCEPT !.month = 0],
                 [GoodFix EXCEPT !.month = 13], [GoodFix EXCEPT !.day = 0],
                 [GoodFix EXCEPT !.day = 32], [GoodFix EXCEPT !.year = 2020, !.month = 12, !.day = 31]}
NextDates == updateGPS(DateFixes) \/ updateTracking(OnePosition, PredictionInstants)
SpecDates ==
  /\ Setup({[azimuth |-> 0, elevation |-> 0, valid |-> FALSE]}, {[a \in Axes |-> 0]}, {StoredTle})
  /\ [][NextDates]_vars

\* the operator's commands around the latch; a command once received runs
NextReset ==
  \/ handleResetCommand \/ beginEmergencyStop \/ endTracking
  \/ resetEmergencyStop \/ emergencyStop_ISR \/ updateMotorControl
SpecReset ==
  Boot({[azimuth |-> 0, elevation |-> 0, valid |-> FALSE]}, LatchCounts) /\ [][NextReset]_vars
SpecResetFair == SpecReset /\ WF_vars(handleResetCommand)

\* the control tick on a moving mount while a stored element set is tracked
OvertravelCounts == [E |-> {0 - 5, 38, 80}, A |-> {0}]
NextOvertravel ==
  \/ updateMotorControl \/ EncoderMove(OvertravelCounts) \/ emergencyStop_ISR
  \/ updateGPS({GoodFix}) \/ updateTracking(OnePosition, OneInstant)
SpecOvertravel ==
  /\ Setup({[azimuth |-> 0, elevation |-> 0, valid |-> FALSE]}, {[a \in Axes |-> 0]}, {StoredTle})
  /\ [][NextOvertravel]_vars

\* the manual writers of the target against a running track
NextManual ==
  \/ handleGotoCommand(GotoInputs) \/ touchElevation
  \/ handleTLE(OneSubmission) \/ updateGPS({GoodFix}) \/ updateTracking(OnePosition, OneInstant)
SpecManual == Init /\ [][NextManual]_vars

\* the control tick over the range of its inputs: the target as the predictor
\* or a manual command leaves it (azimuth in [0, 360)), the encoder counts
\* anywhere the mount can be, unnormalised
AzimuthTargets == {Deg(d) : d \in {0, 45, 90, 135, 180, 225, 270, 315}}
                    \cup {1, Deg(180) - 1, Deg(180) + 1, Deg(360) - 1}
AzimuthCounts == (0 - 160) .. 460
ControlTargets == {[azimuth |-> az, elevation |-> Deg(45), valid |-> TRUE] : az \in AzimuthTargets}
ControlCounts == {[E |-> e, A |-> c] : e \in {38, 0 - 5}, c \in AzimuthCounts}
NextControl == updateMotorControl \/ emergencyStop_ISR \/ resetEmergencyStop
SpecControl == Boot(ControlTargets, ControlCounts) /\ [][NextControl]_vars

\* the control tick over the elevations the shared target can hold, in range
\* or not, and the elevations the mount can be at
ElevationTargets ==
  {[azimuth |-> 0, elevation |-> el, valid |-> TRUE] :
     el \in {0 - Deg(10), 0 - 1, 0, Deg(45), Deg(90), Deg(90) + 1, Deg(120), NaN}}
ElevationCounts == {[E |-> e, A |-> c] : e \in (0 - 5) .. 80, c \in {0, 150}}
SpecElevation == Boot(ElevationTargets, ElevationCounts) /\ [][NextControl]_vars

\* pidControl over its inputs: errors of both signs up to 180 degrees, from
\* integrals at zero and next to either limit (as after some 30 ticks of a
\* large error)
PidTargets ==
  {[azimuth |-> az, elevation |-> Deg(45), valid |-> TRUE] : az \in {0, Deg(90), Deg(270)}}
PidCounts == {[E |-> e, A |-> c] : e \in {0, 38, 80}, c \in {0, 75, 150}}
PidIntegrals == {0, MAX_ERROR_INTEGRAL - 100, 100 - MAX_ERROR_INTEGRAL}
SpecPid == SetupPid(PidTargets, PidCounts, {NoStoredTle}, PidIntegrals) /\ [][NextControl]_vars

\* the output stage with a homing call that runs on once it has started:
\* homeAxes blocks core 0 until it returns
SpecMotorFair == SpecMotor /\ WF_vars(homeAxes)

\* the decoder: control ticks reading both encoders while the discs turn
NextDecoder == updateMotorControl \/ EncoderTurn \/ emergencyStop_ISR
SpecDecoder ==
  /\ Boot({[azimuth |-> 0, elevation |-> 0, valid |-> FALSE]}, LatchCounts) /\ [][NextDecoder]_vars

\* the loss of the GPS fix against every writer of tracking that does not stop
\* the motors: the timeout check, the consumer, the predictor, the TRACK button
NextGpsLoss ==
  \/ handleTLE(OneSubmission) \/ updateGPS({GoodFix}) \/ Touch_Track
  \/ updateTracking(OnePosition, OneInstant)
SpecGpsLoss == Init /\ [][NextGpsLoss]_vars
\* loop1() calls updateTracking forever
SpecGpsLossFair == SpecGpsLoss /\ WF_vars(updateTracking(OnePosition, OneInstant))

\* the STOP command against the control tick while a stored element set is
\* tracked: no manual target, no loss of the fix, no second handoff
NextStop ==
  \/ updateMotorControl \/ endTracking \/ emergencyStop_ISR
  \/ GPS_Fix({GoodFix}) \/ updateTracking(OnePosition, OneInstant)
SpecStop ==
  /\ Setup({[azimuth |-> 0, elevation |-> 0, valid |-> FALSE]}, LatchCounts, {StoredTle})
  /\ [][NextStop]_vars

\* every writer of the target azimuth: the predictor on either side of the
\* 0/360 boundary, GOTO, the touch buttons, the joystick.  A control tick
\* starts from loop(), when none of core 0's handlers is running.
AzimuthGotos == {GotoArgs(2, Deg(360) - 1, Deg(90)), GotoArgs(2, Deg(400), Deg(45))}
NextAzimuth ==
  \/ touchAzimuth \/ joystickManual(JoystickSpeeds) \/ handleGotoCommand(AzimuthGotos)
  \/ updateGPS({GoodFix}) \/ updateTracking(CrossingPositions, OneInstant)
SpecAzimuth ==
  /\ Setup({[azimuth |-> 0, elevation |-> 0, valid |-> FALSE]}, LatchCounts, {StoredTle})
  /\ [][NextAzimuth]_vars

\* ---------------------------------------------------------------- claims

AxisStopped(a) == pwm[a] = SafeOutput
AllStopped == \A a \in Axes : AxisStopped(a)

\* C1: whenever the emergency-stop latch is set (the ISR being atomic, it has
\* returned), both axes' PWM outputs are at the safe value; no setMotorSpeed
\* call of the tick or of homing leaves another value while the latch is set.
EStopForcesZero == emergencyStop => AllStopped

\* C2: every control tick that read the latch set at its top ends with both
\* axes' outputs at the safe value, whatever core 0 was doing when the trigger
\* fired (a PID tick or homing).
EStopWithinOneTick == (pc0 = "umc_ret" /\ loc0.latched) => AllStopped
\* a latched tick at its end, after a PID tick had driven the motors
EStopTickEnded == pc0 = "umc_ret" /\ loc0.latched /\ emergencyStop /\ nTicks >= 1 /\ AllStopped

\* C3: when homeAxes returns through its aborted path, tracking is false.
HomingAbortLeavesTrackingOff == pc0 = "home_aborted" => ~trackerState.tracking

\* C4: a producer raises tleUpdatePending only at the step after its three
\* fields are completely written, the buffer then holding exactly its
\* arguments; and after a single submission the consumer's reads are exactly
\* the submitted name and lines.
PayloadOf(n, l1, l2) == [name |-> n, line1 |-> l1, line2 |-> l2]
SatPayload == PayloadOf(sat.name, sat.line1, sat.line2)
BufferPayload == PayloadOf(satelliteName, tleLine1, tleLine2)
\* what an accepted submission is in the buffer: the serial command hands
\* setTLE the first 24 characters of the name
Stored(sub) == [sub EXCEPT !.name = strncpy(sub.name, SIZEOF_satelliteName - 1)]
AcceptedPayloads == {Stored(sub) : sub \in {x \in Submissions : WebAccepts(x) \/ SerialAccepts(x)}}
FlagAfterPayload ==
  /\ [][nSet' = nSet + 1 =>
          /\ BufferPayload = PayloadOf(loc0.name, loc0.line1, loc0.line2)
          /\ UNCHANGED bufVars
          /\ tleUpdatePending']_vars
  /\ [](nSet = 1 /\ pc0 = "idle" /\ pc1 = "ut_setInit" =>
          SatPayload = BufferPayload /\ SatPayload \in AcceptedPayloads)
\* the consumer has read the one submission made so far
SingleSubmissionRead ==
  nSet = 1 /\ pc0 = "idle" /\ pc1 = "ut_setInit" /\ SatPayload = SubB

\* C5: the consumer never initialises the propagator from a buffer that a
\* producer overwrote meanwhile: what it read is one accepted submission.
InitFromOneSubmission == pc1 = "ut_setInit" => SatPayload \in AcceptedPayloads

\* C6: on the success path the consumer clears the flag only after it has
\* written the site, initialised the propagator, and set satInitialized,
\* tleValid and tracking, in that order.
ClearIsLast ==
  [][(tleUpdatePending /\ ~tleUpdatePending' /\ nDecline' = nDecline) =>
        /\ loc1.done = <<"site", "init", "satInitialized", "tleValid", "tracking">>
        /\ satInitialized /\ trackerState.tleValid
        /\ sat.site = trackerState.site]_vars
\* the success path just past its clear
ClearedAfterInit ==
  /\ pc1 = "ut_pred" /\ ~tleUpdatePending
  /\ loc1.done = <<"site", "init", "satInitialized", "tleValid", "tracking", "clear">>

\* C7 as stated: the flag is false at the end of every consumer tick that
\* observed it true.
FlagFalseAtTickEnd == (pc1 = "ut_ret" /\ loc1.sawPending) => ~tleUpdatePending
\* C7 amended: every consumer tick that observed the flag true has written it
\* false by its end, with or without a GPS fix; and with the tracking loop
\* running, a set flag is always eventually cleared.
FlagClearedEachTick ==
  /\ []((pc1 = "ut_ret" /\ loc1.sawPending) =>
          \E i \in 1 .. Len(loc1.done) : loc1.done[i] = "clear")
  /\ (tleUpdatePending ~> ~tleUpdatePending)
\* a tick that observed the flag ends without a GPS fix, the flag cleared
DeclinedTickEnded ==
  pc1 = "ut_ret" /\ loc1.sawPending /\ loc1.done = <<"clear">> /\ ~tleUpdatePending

\* C8: the propagator is initialised at most once per setting of the flag.
InitAtMostOncePerSet == nInit <= nSet
\* a later tick that found the flag clear after the one initialisation
LaterTickNoInit ==
  nSet = 1 /\ nInit = 1 /\ pc1 = "ut_pred" /\ ~loc1.sawPending /\ lastPredictionTime # 0

\* C9: a flag observed without a GPS fix is cleared in that step with no
\* initialisation and no write of tracking, and the submission is never
\* consumed later; with a fix the tick initialises the propagator, sets
\* tleValid and tracking and then clears the flag.
NoFixNoRetry ==
  /\ [][(pc1 = "ut_gps" /\ pc1' # pc1 /\ ~trackerState.gpsValid) =>
          /\ ~tleUpdatePending' /\ pc1' = "ut_ret"
          /\ UNCHANGED <<sat, satInitialized, trackerState, nInit>>]_vars
  /\ [](nInit + nDecline <= nSet)
  /\ [][(pc1 = "ut_gps" /\ pc1' # pc1 /\ trackerState.gpsValid) => pc1' = "ut_site"]_vars
  /\ [][(pc1 = "ut_setTrk" /\ pc1' # pc1) =>
          /\ trackerState'.tracking /\ trackerState'.tleValid /\ satInitialized'
          /\ SatPayload' = SatPayload /\ pc1' = "ut_clear"]_vars
  /\ [][(pc1 = "ut_clear" /\ pc1' # pc1) => ~tleUpdatePending']_vars
\* declined once, then resubmitted with a fix and consumed
ResubmissionConsumed ==
  /\ nSet = 2 /\ nDecline = 1 /\ nInit = 1
  /\ pc1 = "ut_pred" /\ Len(loc1.done) = 6
  /\ satInitialized /\ trackerState.tleValid /\ trackerState.tracking /\ ~tleUpdatePending

ElevationSetpointInRange ==
  pc0 = "umc_setE" =>
    /\ ~isnan(loc0.targetEl)
    /\ MIN_ELEVATION <= loc0.targetEl /\ loc0.targetEl <= MAX_ELEVATION
    /\ loc0.errorE = FSub(loc0.targetEl, motorPos.elevation * DEGREES_PER_PULSE)
    /\ (targetPos.elevation > MAX_ELEVATION => loc0.targetEl = MAX_ELEVATION)
    /\ (targetPos.elevation < MIN_ELEVATION => loc0.targetEl = MIN_ELEVATION)
\* a tick whose shared target was above the range, clamped to the upper limit
ElevationSetpointClamped ==
  pc0 = "umc_setE" /\ targetPos.elevation = Deg(120) /\ loc0.targetEl = MAX_ELEVATION

\* C12: in every reachable state, the intermediate states of a predictor tick
\* included, the shared target elevation lies in [MIN_ELEVATION, MAX_ELEVATION].
TargetElevationInRange ==
  MIN_ELEVATION <= targetPos.elevation /\ targetPos.elevation <= MAX_ELEVATION

\* C13: the velocities a predictor tick extrapolates with both lie in
\* [-2, +2] deg/s; on the first tick, or a tick not more than 0.01 s after the
\* previous one, both are 0.
PredictorInFlight == pc1 \in {"ut_wAz", "ut_wEl", "ut_wValid"}
VelocityClamped ==
  PredictorInFlight =>
    /\ 0 - Deg(2) <= loc1.azVelocity /\ loc1.azVelocity <= Deg(2)
    /\ 0 - Deg(2) <= loc1.elVelocity /\ loc1.elVelocity <= Deg(2)
    /\ (lastPredictionTime = 0 \/ loc1.now - lastPredictionTime <= 10) =>
          (loc1.azVelocity = 0 /\ loc1.elVelocity = 0)
\* a tick 1 s after the previous one whose raw difference is 100 deg/s in
\* azimuth and 44 deg/s in elevation, both velocities at the limit
VelocityAtLimit ==
  /\ PredictorInFlight /\ loc1.now - lastPredictionTime = 1000
  /\ loc1.azNow - lastAz = Deg(100) /\ loc1.elNow - lastEl = Deg(44)
  /\ loc1.azVelocity = Deg(2) /\ loc1.elVelocity = Deg(2)

\* C14: a predictor tick at (az, el), el >= 0, with clamped velocities
\* (vAz, vEl) ends with the target (az + 2 vAz wrapped to [0, 360),
\* el + 2 vEl, valid).
PredictorTickEnded == pc1 = "ut_ret" /\ loc1.now # 0
PredictedTargetWritten ==
  (PredictorTickEnded /\ loc1.elNow >= 0) =>
     targetPos = [azimuth |-> (loc1.azNow + 2 * loc1.azVelocity) % Deg(360),
                  elevation |-> loc1.elNow + 2 * loc1.elVelocity,
                  valid |-> TRUE]
\* (100, 45) with 0.1 deg/s in azimuth and 0 in elevation gives (100.2, 45, valid)
LookaheadScenario ==
  /\ PredictorTickEnded /\ loc1.azNow = Deg(100) /\ loc1.elNow = Deg(45)
  /\ loc1.azVelocity = 10 /\ loc1.elVelocity = 0
  /\ targetPos = [azimuth |-> Deg(100) + 20, elevation |-> Deg(45), valid |-> TRUE]

\* C15: a predictor tick whose instantaneous elevation is below 0 ends with
\* the target elevation 0 and the target azimuth the new predicted azimuth,
\* and no step of it changes tracking.
StowBelowHorizon ==
  /\ []((PredictorTickEnded /\ loc1.elNow < 0) =>
          /\ targetPos.elevation = 0
          /\ targetPos.azimuth = (loc1.azNow + 2 * loc1.azVelocity) % Deg(360))
  /\ [][(pc1 \in {"ut_pred", "ut_wAz", "ut_wEl", "ut_wValid", "ut_stow"} /\ pc1' # pc1
          /\ loc1'.elNow < 0) => UNCHANGED trackerState]_vars
\* a tick at elevation -3 ended: stowed, azimuth moved on past 0, tracking on
StowedStillTracking ==
  /\ PredictorTickEnded /\ loc1.elNow = 0 - Deg(3) /\ loc1.azVelocity = Deg(2)
  /\ targetPos.elevation = 0 /\ targetPos.azimuth = Deg(3)
  /\ trackerState.tracking
\* C16: a manual target whose azimuth is outside [0, 360) or whose elevation is
\* outside [MIN_ELEVATION, MAX_ELEVATION] never reaches setManualPosition.
AzimuthAccepted(a) == ~isnan(a) /\ 0 <= a /\ a < Deg(360)
ElevationAccepted(e) == ~isnan(e) /\ MIN_ELEVATION <= e /\ e <= MAX_ELEVATION
ManualTargetValidated ==
  pc0 \in {"goto_trk", "goto_az", "goto_el", "goto_valid"} =>
    AzimuthAccepted(loc0.az) /\ ElevationAccepted(loc0.el)

\* C17: a submission whose name is empty or longer than 24 characters, or whose
\* lines are not 69 characters beginning with '1' and '2', never gets to write
\* the shared buffer, the flag or tleValid. loc0.argLen is the length of the
\* name as submitted (name.length() / strlen(args)).
ProducerWriting ==
  pc0 \in {"web_clrName", "web_cpyName", "web_clrL1", "web_cpyL1", "web_clrL2", "web_cpyL2",
           "web_flag", "ser_clrName", "ser_cpyName", "ser_clrL1", "ser_cpyL1", "ser_clrL2",
           "ser_cpyL2", "ser_flag", "ser_valid"}
MalformedTleRejected ==
  ProducerWriting =>
    /\ 1 <= loc0.argLen /\ loc0.argLen <= SIZEOF_satelliteName - 1
    /\ loc0.line1.len = TLE_LINE_LEN /\ loc0.line1.c0 = "1"
    /\ loc0.line2.len = TLE_LINE_LEN /\ loc0.line2.c0 = "2"

ResetReturnsCleared == (pc0 = "rst_call") ~> (pc0 = "idle" /\ ~emergencyStop)

HomingTimeoutLeavesTrackingOff == pc0 = "home_timeout" => ~trackerState.tracking

\* C22: a control tick (latch not set at its top) that measures an elevation
\* below MIN_ELEVATION - 5 or above MAX_ELEVATION + 5 degrees takes the fault
\* path, on every such tick: it runs no PID step, and at its last statement
\* both axes are commanded zero and tracking is written false.
MeasuredElevation == motorPos.elevation * DEGREES_PER_PULSE
OutOfSafeRange(el) == el < MIN_ELEVATION - Deg(5) \/ el > MAX_ELEVATION + Deg(5)
OvertravelPath == pc0 \in {"umc_otE", "umc_otA", "umc_otEn", "umc_otTrk"}
OvertravelStopsAndClears ==
  [][/\ (pc0 = "umc_readA" /\ pc0' # pc0) =>
          (pc0' = IF OutOfSafeRange(MeasuredElevation) THEN "umc_otE" ELSE "umc_tgtE")
     /\ OvertravelPath => UNCHANGED pidVars
     /\ (pc0 = "umc_otTrk" /\ pc0' # pc0) =>
          (pc0' = "umc_ret" /\ AllStopped' /\ ~trackerState'.tracking)]_vars
\* a tick that ended on the fault path, above the range, while a track was
\* running and after a PID tick had left a non-zero state
OvertravelTickEnded ==
  /\ pc0 = "umc_ret" /\ ~loc0.latched /\ nTicks = MaxTicks
  /\ MeasuredElevation > MAX_ELEVATION + Deg(5) /\ AllStopped /\ lastErrorA # 0
  /\ satInitialized /\ targetPos.valid /\ ~trackerState.tracking

\* C23: an index trip of an axis sets that axis's "found" latch and zeroes the
\* count the next readPIOEncoder of that axis returns; the other axis's count
\* and latch are unchanged.
IndexTripZeroesCount ==
  [][/\ indexE_ISR =>
          /\ motorPos'.elevationIndexFound /\ encCount'["E"] = 0
          /\ encCount'["A"] = encCount["A"]
          /\ motorPos'.azimuthIndexFound = motorPos.azimuthIndexFound
     /\ indexA_ISR =>
          /\ motorPos'.azimuthIndexFound /\ encCount'["A"] = 0
          /\ encCount'["E"] = encCount["E"]
          /\ motorPos'.elevationIndexFound = motorPos.elevationIndexFound]_vars

\* C24: the (azimuth, elevation) pair a control tick computes its errors from
\* is the pair of one single write of the target: the initial (0, 0) or one of
\* the targets the predictor wrote.
TargetPairFromOneWrite ==
  pc0 = "umc_setE" => <<loc0.targetAz, loc0.targetEl>> \in {<<0, 0>>} \cup TargetPairs

\* C25: the azimuth velocity of a predictor tick is the wraparound-corrected
\* azimuth delta (360 subtracted or added when the naive delta exceeds +-180
\* degrees) divided by dt, then clamped to +-2 deg/s.
ShortWayDelta(d) ==
  IF d > Deg(180) THEN d - Deg(360) ELSE IF d < 0 - Deg(180) THEN d + Deg(360) ELSE d
AzVelocityFromWrappedDelta ==
  (pc1 \in {"ut_wAz", "ut_wEl"} /\ lastPredictionTime > 0 /\ loc1.now - lastPredictionTime > 10) =>
    loc1.azVelocity =
      constrain(TruncDiv(ShortWayDelta(loc1.azNow - lastAz) * 1000, loc1.now - lastPredictionTime),
                0 - Deg(2), Deg(2))

\* C26: in the control math of a tick, an axis whose |error| is within
\* POSITION_TOLERANCE gets a zero drive command and its (integral, lastError)
\* reset to zero; an axis outside the tolerance gets the PID step computed from
\* its own previous state, whatever happens to the other axis.
InTolerance(error) == ~isnan(error) /\ Abs(error) <= POSITION_TOLERANCE
DeadZoneResetsAxis ==
  [][(pc0 = "umc_tgtA" /\ pc0' = "umc_setE") =>
       /\ InTolerance(loc0'.errorE) =>
            (loc0'.controlE = 0 /\ errorIntegralE' = 0 /\ lastErrorE' = 0)
       /\ InTolerance(loc0'.errorA) =>
            (loc0'.controlA = 0 /\ errorIntegralA' = 0 /\ lastErrorA' = 0)
       /\ (~InTolerance(loc0'.errorE) /\ ~isnan(loc0'.errorE)) =>
            LET r == pidControl(loc0'.errorE, errorIntegralE, lastErrorE)
            IN  errorIntegralE' = r.integral /\ lastErrorE' = r.lastError
       /\ (~InTolerance(loc0'.errorA) /\ ~isnan(loc0'.errorA)) =>
            LET r == pidControl(loc0'.errorA, errorIntegralA, lastErrorA)
            IN  errorIntegralA' = r.integral /\ lastErrorA' = r.lastError]_vars
\* elevation inside the tolerance and reset, azimuth outside it and driven
DeadZoneOneAxis ==
  /\ pc0 = "umc_setE" /\ nTicks = MaxTicks
  /\ InTolerance(loc0.errorE) /\ loc0.controlE = 0 /\ errorIntegralE = 0 /\ lastErrorE = 0
  /\ ~InTolerance(loc0.errorA) /\ loc0.controlA # 0 /\ lastErrorA # 0

\* C27: a control tick that runs its control math while the target is not
\* valid leaves the PID state of both axes at zero.
InvalidTargetResetsPid ==
  (pc0 = "umc_setE" /\ ~targetPos.valid) =>
    (errorIntegralE = 0 /\ lastErrorE = 0 /\ errorIntegralA = 0 /\ lastErrorA = 0)

\* C28: after any sequence of pidControl calls the stored integral of each axis
\* is within +-MAX_ERROR_INTEGRAL, lastError is the error of the latest call
\* and the returned output is within [-255, 255].
PidStateBounded ==
  /\ Abs(errorIntegralE) <= MAX_ERROR_INTEGRAL /\ Abs(errorIntegralA) <= MAX_ERROR_INTEGRAL
  /\ pc0 = "umc_setE" =>
       /\ 0 - 255 <= loc0.controlE /\ loc0.controlE <= 255
       /\ 0 - 255 <= loc0.controlA /\ loc0.controlA <= 255
       /\ ~InTolerance(loc0.errorE) => lastErrorE = loc0.errorE
       /\ ~InTolerance(loc0.errorA) => lastErrorA = loc0.errorA
\* a call that saturated both the integral and the output
PidSaturated ==
  /\ pc0 = "umc_setE" /\ ~InTolerance(loc0.errorE)
  /\ errorIntegralE = MAX_ERROR_INTEGRAL /\ loc0.controlE = 255 /\ lastErrorE = loc0.errorE

\* C29: a predictor tick that finds the GPS date out of range (year outside
\* 2020..2100, month outside 1..12, day outside 1..31) returns at once: from
\* the date check to the end of the tick the target, tracking and the stored
\* previous position and timestamp are unchanged.
DateOutOfRange(ts) ==
  \/ ts.gpsYear \notin 2020 .. 2100
  \/ ts.gpsMonth \notin 1 .. 12
  \/ ts.gpsDay \notin 1 .. 31
BadDateTickSkipped ==
  [][/\ (pc1 = "ut_pred" /\ pc1' # pc1 /\ PredictorRuns /\ DateOutOfRange(trackerState)) =>
          (pc1' = "ut_ret" /\ UNCHANGED <<targetPos, trackerState, predVars, loc1>>)
     /\ (pc1 = "ut_ret" /\ pc1' # pc1) =>
          (pc1' = "idle" /\ UNCHANGED <<targetPos, trackerState, predVars>>)]_vars
\* a skipped tick at its end, after earlier ticks had written a target
BadDateTickEnded ==
  /\ pc1 = "ut_ret" /\ PredictorRuns /\ DateOutOfRange(trackerState)
  /\ ~loc1.sawPending /\ loc1.now = 0
  /\ targetPos.valid /\ lastPredictionTime > 0

\* C30: a tick of the tracking core goes on to write the target only when, at
\* its test, tracking, tleValid and gpsValid are all true and the propagator
\* is initialised; no other step of the tracking core writes a field of it.
PredictorWrites == pc1 \in {"ut_wAz", "ut_wEl", "ut_wValid", "ut_stow"}
TargetWrittenOnlyWhenTracking ==
  [][/\ (pc1 = "ut_pred" /\ pc1' # pc1 /\ pc1' # "ut_ret") =>
          /\ trackerState.tracking /\ trackerState.tleValid /\ trackerState.gpsValid
          /\ satInitialized /\ pc1' = "ut_wAz"
     /\ (pc1' # pc1 /\ ~PredictorWrites) => UNCHANGED targetPos]_vars
\* a tick that went by without writing: tleValid set by the serial command, the
\* propagator never initialised
PredictorHeldBack ==
  /\ pc1 = "ut_ret" /\ ~loc1.sawPending /\ loc1.now = 0
  /\ trackerState.tleValid /\ trackerState.gpsValid /\ ~satInitialized /\ ~targetPos.valid

\* C31: a homing run that no emergency stop aborts takes both axes in turn:
\* for each axis the "found" latch is cleared, the axis is driven at
\* HOMING_SPEED and commanded zero after the wait, and the azimuth axis follows
\* the elevation axis also when the elevation wait ended by timeout.
HomingTakesBothAxes ==
  [][/\ (pc0 = "home_clrE" /\ pc0' # pc0) =>
          (~motorPos'.elevationIndexFound /\ pc0' = "home_driveE")
     /\ (pc0 = "home_driveE" /\ sms = "entry" /\ sms' # sms /\ ~emergencyStop) =>
          speed' = HOMING_SPEED
     /\ (pc0 = "home_waitE" /\ pc0' # pc0) => pc0' = "home_stopE"
     /\ (pc0 = "home_stopE" /\ sms = "entry" /\ sms' # sms) => speed' = 0
     /\ (pc0 = "home_resE" /\ pc0' # pc0 /\ ~emergencyStop) => pc0' = "home_clrA"
     /\ (pc0 = "home_clrA" /\ pc0' # pc0) =>
          (~motorPos'.azimuthIndexFound /\ pc0' = "home_driveA")
     /\ (pc0 = "home_driveA" /\ sms = "entry" /\ sms' # sms /\ ~emergencyStop) =>
          speed' = HOMING_SPEED
     /\ (pc0 = "home_waitA" /\ pc0' # pc0) => pc0' = "home_stopA"
     /\ (pc0 = "home_stopA" /\ sms = "entry" /\ sms' # sms) => speed' = 0]_vars

\* C32: homeAxes always returns; each wait is left only for the zero-speed
\* command of its axis (the latch found, the timeout or the emergency stop
\* ended it), and at every return after an axis was driven that axis's
\* output is the one of the zero-speed command.
HomingTerminates ==
  /\ (pc0 = "home_chk") ~> (pc0 = "idle")
  /\ [][/\ (pc0 = "home_waitE" /\ pc0' # pc0) => pc0' = "home_stopE"
        /\ (pc0 = "home_waitA" /\ pc0' # pc0) => pc0' = "home_stopA"
        /\ (pc0 = "home_resE" /\ pc0' # pc0) => AxisStopped("E")
        /\ (pc0 = "home_resA" /\ pc0' # pc0) => AllStopped
        /\ (pc0 \in HomeReturns /\ pc0' # pc0) => (pc0' = "idle" /\ UNCHANGED pwm)]_vars
\* a run that found the elevation index and left the azimuth wait by timeout
HomingLeftByTimeout ==
  /\ pc0 = "home_timeout" /\ ~emergencyStop /\ AllStopped
  /\ motorPos.elevationIndexFound /\ ~motorPos.azimuthIndexFound

\* C33: a read that samples the lines one step further along the forward
\* sequence 00 -> 01 -> 11 -> 10 -> 00 adds 1 to the axis's count, and one step
\* along the reverse sequence subtracts 1.
ReadStep(a) ==
  /\ pc0 = (IF a = "E" THEN "umc_readE" ELSE "umc_readA")
  /\ pc0' # pc0
QuadratureCountsEveryStep ==
  [][\A a \in Axes : ReadStep(a) =>
       /\ pins[a] = GrayForward(last_state[a]) => encCount'[a] = encCount[a] + 1
       /\ pins[a] = GrayReverse(last_state[a]) => encCount'[a] = encCount[a] - 1]_vars

\* C34: whenever core 0 is back in loop(), where the next control tick reads
\* the target, the target azimuth lies in [0, 360), after any sequence of
\* predictor ticks, GOTO commands, touch azimuth presses and joystick updates.
TargetAzimuthInRange ==
  pc0 = "idle" =>
    (~isnan(targetPos.azimuth) /\ 0 <= targetPos.azimuth /\ targetPos.azimuth < Deg(360))

\* C35: in every reachable state tleValid = true implies that the propagator
\* has been initialised (satInitialized = true).
TleValidImpliesInitialized == trackerState.tleValid => satInitialized

\* C36: while the emergency-stop latch is set, tracking is false: between the
\* ISR and resetEmergencyStop neither the handoff consumer nor the TRACK
\* button sets it.
NoTrackingWhileLatched ==
  /\ [](emergencyStop => ~trackerState.tracking)
  /\ [][(emergencyStop /\ emergencyStop') => (trackerState.tracking' => trackerState.tracking)]_vars

\* C37: setManualPosition(az, el) clears tracking first; unless a handoff or
\* TRACK has set tracking again, it returns with the target (az, el, valid),
\* and once it has cleared tracking no step of the tracking core changes the
\* target, a predictor tick already in progress included.
ManualTargetHeld ==
  [][/\ (pc0 = "goto_trk" /\ pc0' # pc0) => ~trackerState'.tracking
     /\ (pc0 = "goto_valid" /\ pc0' = "idle" /\ ~trackerState'.tracking) =>
          targetPos' = [azimuth |-> loc0.az, elevation |-> loc0.el, valid |-> TRUE]
     /\ (pc0 \in {"goto_az", "goto_el", "goto_valid"} /\ ~trackerState.tracking /\ pc1' # pc1) =>
          UNCHANGED targetPos]_vars

\* C38: once the GPS fix is lost, tracking is false at the end of the timeout
\* check and after the predictor's test of every later tick without a fix;
\* tracking that is true without a fix does not last; and tracking goes from
\* false to true only by a handoff consumption or the TRACK button.
GpsLossStopsTracking ==
  /\ [][/\ (pc0 = "gps_trk" /\ pc0' # pc0) => ~trackerState'.tracking
        /\ (pc1 = "ut_pred" /\ pc1' # pc1 /\ ~trackerState.gpsValid) =>
             (~trackerState'.tracking /\ pc1' = "ut_ret")
        /\ (~trackerState.tracking /\ trackerState'.tracking) =>
             (pc1 = "ut_setTrk" \/ Touch_Track)]_vars
  /\ (trackerState.tracking /\ ~trackerState.gpsValid)
        ~> (~trackerState.tracking \/ trackerState.gpsValid)
\* the fix was lost while the consumer was initialising: the consumer set
\* tracking after the timeout check, and the same tick's predictor cleared it
GpsLostTickEnded ==
  /\ pc1 = "ut_ret" /\ pc0 = "idle" /\ ~trackerState.gpsValid /\ ~trackerState.tracking
  /\ loc1.done = <<"site", "init", "satInitialized", "tleValid", "tracking", "clear">>

\* C39: once a STOP command has cleared tracking, every control tick that ends
\* with tracking still false (no emergency stop involved) ends with both
\* motor outputs at the zero-speed value.
StoppedOutputsStayZero ==
  (pc0 = "umc_ret" /\ ~emergencyStop /\ ~loc0.latched
     /\ targetPos.valid /\ ~trackerState.tracking) => AllStopped

====
